---- MODULE Spec2Model ----
(***************************************************************************)
(* Ingestion pipeline of the Hope service directory: the Geocoder fallback *)
(* chain, the Deduplicator (find_match, create_or_update, add_services,    *)
(* add_operating_hours) and the per-record loops of the pipeline runners,  *)
(* over a transactional store.                                             *)
(*                                                                         *)
(* Text values.  Names and street addresses are sequences of one-letter    *)
(* strings, because SequenceMatcher works on their characters.  Python's   *)
(* None and "" are both falsy and take the same branch everywhere in the   *)
(* modelled code, so an absent text is the empty text ("" or << >>).  The  *)
(* Optional[bool] wheelchair flag keeps its three values apart.            *)
(***************************************************************************)
EXTENDS Integers, Sequences, FiniteSets, TLC

\* ------------------------------------------------------------------ bounds
\* Locations the store may hold (inserts are refused by the model beyond it).
MaxLocs == 2
\* Records in one runner's raw_data list.
MaxRecs == 2
\* Pipeline runs in one behaviour.
MaxRuns == 2

\* ------------------------------------------------------------- characters
UPPER == <<"A","B","C","D","E","F","G","H","I","J","K","L","M",
           "N","O","P","Q","R","S","T","U","V","W","X","Y","Z">>
LOWER == <<"a","b","c","d","e","f","g","h","i","j","k","l","m",
           "n","o","p","q","r","s","t","u","v","w","x","y","z">>

\* str.lower() on one character: upper-case letters map to lower case,
\* everything else is kept.
LowerChar(c) ==
    IF \E i \in DOMAIN UPPER : UPPER[i] = c
    THEN LOWER[CHOOSE i \in DOMAIN UPPER : UPPER[i] = c]
    ELSE c

\* str.lower()
Lower(s) == [i \in DOMAIN s |-> LowerChar(s[i])]

\* ------------------------------------------- difflib.SequenceMatcher.ratio
\* Length of the common run of a[i..ahi] and b[j..bhi] starting at (i, j).
RECURSIVE RunLen(_, _, _, _, _, _)
RunLen(a, b, i, j, ahi, bhi) ==
    IF i > ahi \/ j > bhi THEN 0
    ELSE IF a[i] # b[j] THEN 0
    ELSE 1 + RunLen(a, b, i + 1, j + 1, ahi, bhi)

\* find_longest_match(alo, ahi, blo, bhi): <<i, j, k>> with a[i..i+k-1] =
\* b[j..j+k-1], k maximal, then i minimal, then j minimal (no junk: the
\* autojunk heuristic only applies to sequences of 200 items or more).
\* Bounds are 1-based and inclusive; k = 0 when nothing matches.
FindLongestMatch(a, b, alo, ahi, blo, bhi) ==
    LET runs == {<<i, j, RunLen(a, b, i, j, ahi, bhi)>> :
                    i \in alo..ahi, j \in blo..bhi}
        hits == {r \in runs : r[3] > 0}
    IN  IF hits = {} THEN <<alo, blo, 0>>
        ELSE CHOOSE r \in hits :
               \A q \in hits :
                  \/ r[3] > q[3]
                  \/ r[3] = q[3] /\ r[1] < q[1]
                  \/ r[3] = q[3] /\ r[1] = q[1] /\ r[2] <= q[2]

\* Sum of the sizes of get_matching_blocks(): the longest block, then the
\* blocks to its left and to its right, recursively.
RECURSIVE MatchingSize(_, _, _, _, _, _)
MatchingSize(a, b, alo, ahi, blo, bhi) ==
    IF alo > ahi \/ blo > bhi THEN 0
    ELSE LET m == FindLongestMatch(a, b, alo, ahi, blo, bhi)
         IN  IF m[3] = 0 THEN 0
             ELSE m[3]
                  + MatchingSize(a, b, alo, m[1] - 1, blo, m[2] - 1)
                  + MatchingSize(a, b, m[1] + m[3], ahi, m[2] + m[3], bhi)

\* ratio() = 2.0 * matches / (len(a) + len(b)), 1.0 when both are empty;
\* kept as the fraction <<numerator, denominator>>.
Ratio(a, b) ==
    IF Len(a) + Len(b) = 0 THEN <<1, 1>>
    ELSE <<2 * MatchingSize(a, b, 1, Len(a), 1, Len(b)), Len(a) + Len(b)>>

\* ratio > num/den, on fractions (the floating-point quotients 34.0/40 and
\* 8.0/10 are the doubles 0.85 and 0.8, so the comparison is exact there).
RatioAbove(r, num, den) == r[1] * den > num * r[2]

\* ------------------------------------------------------------ text values
NAME_EAST == <<"H","o","p","e"," ","S","h","e","l","t","e","r"," ","E","a","s","t">>
NAME_EAST_LOWER == <<"h","o","p","e"," ","s","h","e","l","t","e","r"," ","e","a","s","t">>
NAME_EAST_WING == <<"h","o","p","e"," ","s","h","e","l","t","e","r"," ","e","a","s","t"," ","w","i","n","g">>
NAME_EAST_ANNEX == <<"h","o","p","e"," ","s","h","e","l","t","e","r"," ","e","a","s","t"," ","a","n","n","e","x">>
NAME_FOOD == <<"F","o","o","d"," ","B","a","n","k">>
ADDR_10 == <<"1","0"," ","a","v">>
ADDR_11 == <<"1","1"," ","a","v">>
ADDR_1 == <<"1"," ","a","v">>
ADDR_ELM == <<"9"," ","e","l","m">>
ZIP_10001 == <<"1","0","0","0","1">>

\* The lower-cased texts of the model, and ratio() on them, computed once.
Texts ==
    {Lower(t) : t \in {NAME_EAST, NAME_EAST_LOWER, NAME_EAST_WING, NAME_EAST_ANNEX,
                       NAME_FOOD, ADDR_10, ADDR_11, ADDR_1, ADDR_ELM}}
RatioOfTexts == [a \in Texts, b \in Texts |-> Ratio(a, b)]

\* SequenceMatcher(None, a, b).ratio()
SequenceMatcherRatio(a, b) ==
    IF a \in Texts /\ b \in Texts THEN RatioOfTexts[a, b] ELSE Ratio(a, b)

\* Optional[T] for numbers: << >> is None, <<v>> is the value v.
None == << >>
Some(v) == <<v>>

\* ------------------------------------------------------------------ store
\* service_types as seeded by the schema migration: slug -> id.
ServiceType ==
    [food |-> 1, shelter |-> 2, hygiene |-> 3, medical |-> 4,
     warming |-> 5, cooling |-> 6, social |-> 7]

\* The tables a session reads and writes: service_locations (a location's id
\* is its position in locs), location_services and operating_hours.
EmptyStore == [locs |-> << >>, svcs |-> {}, hrs |-> {}]

\* No location (Python's None where a ServiceLocation is expected).
NoLocation == 0

\* ------------------------------------------------------------ Deduplicator
\* Mutant of IdentityMatches: the row's name must equal the record's as well.
IdentityMatchesSameName(d, raw_data) ==
    IF raw_data.external_id # "" /\ raw_data.data_source # ""
    THEN {i \in DOMAIN d.locs :
             /\ d.locs[i].external_id = raw_data.external_id
             /\ d.locs[i].data_source = raw_data.data_source
             /\ d.locs[i].name = raw_data.name}
    ELSE {}

\* find_match, strategy 1: the rows whose (external_id, data_source) equal the
\* record's, when the record has both.  The query has no deleted_at filter.
IdentityMatches(d, raw_data) ==
    IF raw_data.external_id # "" /\ raw_data.data_source # ""
    THEN {i \in DOMAIN d.locs :
             /\ d.locs[i].external_id = raw_data.external_id
             /\ d.locs[i].data_source = raw_data.data_source}
    ELSE {}

\* name_similarity, as a fraction.
name_similarity(raw_data, candidate) ==
    SequenceMatcherRatio(Lower(raw_data.name), Lower(candidate.name))

\* address_similarity: 0.0 unless both have a street address.
address_similarity(raw_data, candidate) ==
    IF raw_data.street_address # << >> /\ candidate.street_address # << >>
    THEN SequenceMatcherRatio(Lower(raw_data.street_address),
                              Lower(candidate.street_address))
    ELSE <<0, 1>>

\* Mutant of HighConfidence: the thresholds are inclusive (>=).
HighConfidenceInclusive(raw_data, candidate) ==
    /\ name_similarity(raw_data, candidate)[1] * 100
          >= 85 * name_similarity(raw_data, candidate)[2]
    /\ address_similarity(raw_data, candidate)[1] * 10
          >= 8 * address_similarity(raw_data, candidate)[2]

\* "High confidence match": name_similarity > 0.85 and address_similarity > 0.8.
HighConfidence(raw_data, candidate) ==
    /\ RatioAbove(name_similarity(raw_data, candidate), 85, 100)
    /\ RatioAbove(address_similarity(raw_data, candidate), 8, 10)

\* find_match, strategy 2: the non-deleted rows of the record's borough that
\* are a high confidence match.
FuzzyMatches(d, raw_data) ==
    IF raw_data.borough # ""
    THEN {i \in DOMAIN d.locs :
             /\ d.locs[i].borough = raw_data.borough
             /\ d.locs[i].deleted_at = "None"
             /\ HighConfidence(raw_data, d.locs[i])}
    ELSE {}

\* Mutant of find_match: the fuzzy tier is consulted first.
find_match_fuzzy_first(d, raw_data) ==
    IF FuzzyMatches(d, raw_data) # {} THEN FuzzyMatches(d, raw_data)
    ELSE IF IdentityMatches(d, raw_data) # {} THEN IdentityMatches(d, raw_data)
    ELSE {NoLocation}

\* find_match: the locations the call can return.  Neither query is ordered,
\* so .first() and the candidate loop may meet the rows in any order: every
\* row of the deciding strategy is a possible result.  {NoLocation} is None.
find_match(d, raw_data) ==
    IF IdentityMatches(d, raw_data) # {} THEN IdentityMatches(d, raw_data)
    ELSE IF FuzzyMatches(d, raw_data) # {} THEN FuzzyMatches(d, raw_data)
    ELSE {NoLocation}

\* Mutant of OrText: the stored text wins when there is one.
OrTextKeeping(x, y) == IF y # "" THEN y ELSE x

\* Python's "x or y" on text, on Optional[bool] and on lists.
OrText(x, y) == IF x # "" THEN x ELSE y
OrFlag(x, y) == IF x = "True" THEN x ELSE y
OrList(x, y) == IF x # << >> THEN x ELSE y

\* Mutant of UpdatedLocation: the row also takes the record's upstream
\* identity and street address.
UpdatedLocationRetagged(existing, raw_data, coords) ==
    [existing EXCEPT
        !.name = raw_data.name,
        !.description = OrText(raw_data.description, existing.description),
        !.organization_name =
            OrText(raw_data.organization_name, existing.organization_name),
        !.phone = OrText(raw_data.phone, existing.phone),
        !.website = OrText(raw_data.website, existing.website),
        !.wheelchair_accessible =
            OrFlag(raw_data.wheelchair_accessible, existing.wheelchair_accessible),
        !.languages_spoken =
            OrList(raw_data.languages_spoken, existing.languages_spoken),
        !.latitude = coords[1],
        !.longitude = coords[2],
        !.street_address = raw_data.street_address,
        !.data_source = raw_data.data_source,
        !.external_id = raw_data.external_id]

\* create_or_update, existing branch: the row after the update.
UpdatedLocation(existing, raw_data, coords) ==
    [existing EXCEPT
        !.name = raw_data.name,
        !.description = OrText(raw_data.description, existing.description),
        !.organization_name =
            OrText(raw_data.organization_name, existing.organization_name),
        !.phone = OrText(raw_data.phone, existing.phone),
        !.website = OrText(raw_data.website, existing.website),
        !.wheelchair_accessible =
            OrFlag(raw_data.wheelchair_accessible, existing.wheelchair_accessible),
        !.languages_spoken =
            OrList(raw_data.languages_spoken, existing.languages_spoken),
        !.latitude = coords[1],
        !.longitude = coords[2]]

\* create_or_update, new branch: the inserted row.
NewLocation(raw_data, coords) ==
    [name |-> raw_data.name,
     description |-> raw_data.description,
     organization_name |-> raw_data.organization_name,
     street_address |-> raw_data.street_address,
     city |-> raw_data.city,
     state |-> raw_data.state,
     zip_code |-> raw_data.zip_code,
     borough |-> raw_data.borough,
     phone |-> raw_data.phone,
     website |-> raw_data.website,
     wheelchair_accessible |-> raw_data.wheelchair_accessible,
     languages_spoken |-> raw_data.languages_spoken,
     latitude |-> coords[1],
     longitude |-> coords[2],
     data_source |-> raw_data.data_source,
     external_id |-> raw_data.external_id,
     verified |-> FALSE,
     deleted_at |-> "None"]

\* create_or_update, first statement: `if not coords: raise ValueError(...)`.
\* A tuple of two numbers is truthy whatever the numbers, None is not.
create_or_update_raises(coords) ==
    IF coords = None THEN "ValueError" ELSE "None"

\* Mutant of create_or_update: missing coordinates default to (0, 0).
create_or_update_defaulting(d, raw_data, coords, existing) ==
    LET at == IF coords = None THEN <<0, 0>> ELSE coords
    IN  IF existing # NoLocation
        THEN [d EXCEPT !.locs[existing] =
                          UpdatedLocation(d.locs[existing], raw_data, at)]
        ELSE [d EXCEPT !.locs = Append(d.locs, NewLocation(raw_data, at))]

\* create_or_update(raw_data, coords) with find_match having returned
\* `existing`: the store afterwards.  Without coordinates the call raises
\* before find_match and before any change of the session.
create_or_update(d, raw_data, coords, existing) ==
    IF coords = None THEN d
    ELSE IF existing # NoLocation
    THEN [d EXCEPT !.locs[existing] =
                      UpdatedLocation(d.locs[existing], raw_data, coords)]
    ELSE [d EXCEPT !.locs = Append(d.locs, NewLocation(raw_data, coords))]

\* The ServiceLocation create_or_update returns.
ReturnedLocation(d, existing) ==
    IF existing # NoLocation THEN existing ELSE Len(d.locs) + 1

\* capacity_map.get(slug): the last ServiceCapacity of the list for the slug,
\* << >> when there is none.
capacity_map(service_capacities, slug) ==
    LET at == {i \in DOMAIN service_capacities :
                  service_capacities[i].service_type = slug}
    IN  IF at = {} THEN << >>
        ELSE <<service_capacities[CHOOSE i \in at : \A j \in at : j <= i]>>

\* Mutant of add_services: the existing associations are not deleted.
add_services_keeping(d, location, service_type_slugs, service_capacities) ==
    [d EXCEPT !.svcs = d.svcs \cup
        {[location_id |-> location,
          service_type_id |-> ServiceType[slug],
          capacity |-> IF capacity_map(service_capacities, slug) # << >>
                       THEN capacity_map(service_capacities, slug)[1].capacity
                       ELSE None,
          notes |-> IF capacity_map(service_capacities, slug) # << >>
                    THEN capacity_map(service_capacities, slug)[1].notes
                    ELSE ""] :
            slug \in {service_type_slugs[i] : i \in DOMAIN service_type_slugs}
                        \cap DOMAIN ServiceType}]

\* add_services: delete the location's associations, then add one per
\* service type whose slug is in service_type_slugs.
add_services(d, location, service_type_slugs, service_capacities) ==
    LET slugs == {service_type_slugs[i] : i \in DOMAIN service_type_slugs}
                    \cap DOMAIN ServiceType
        kept == {ls \in d.svcs : ls.location_id # location}
        row(slug) ==
            LET capacity_data == capacity_map(service_capacities, slug)
            IN  [location_id |-> location,
                 service_type_id |-> ServiceType[slug],
                 capacity |-> IF capacity_data # << >>
                              THEN capacity_data[1].capacity ELSE None,
                 notes |-> IF capacity_data # << >>
                           THEN capacity_data[1].notes ELSE ""]
    IN  [d EXCEPT !.svcs = kept \cup {row(slug) : slug \in slugs}]

\* add_operating_hours: nothing for an empty list or a location without
\* service types; else delete the location's rows and add one row per entry
\* and per service type of the location.  `entry` stands for the row's
\* autoincrement id within the location.
add_operating_hours(d, location, operating_hours_list) ==
    LET service_map == {ls.service_type_id :
                           ls \in {x \in d.svcs : x.location_id = location}}
        kept == {oh \in d.hrs : oh.location_id # location}
        row(i, service_type_id) ==
            [location_id |-> location,
             service_type_id |-> service_type_id,
             entry |-> i,
             day_of_week |-> operating_hours_list[i].day_of_week,
             open_time |-> operating_hours_list[i].open_time,
             close_time |-> operating_hours_list[i].close_time,
             is_24_hours |-> operating_hours_list[i].is_24_hours,
             is_closed |-> operating_hours_list[i].is_closed,
             notes |-> operating_hours_list[i].notes]
    IN  IF operating_hours_list = << >> THEN d
        ELSE IF service_map = {} THEN d
        ELSE [d EXCEPT !.hrs = kept \cup
                 {row(i, st) : i \in DOMAIN operating_hours_list,
                               st \in service_map}]

\* ----------------------------------------------------------------- Geocoder
\* Coordinates are <<latitude, longitude>> in units of 1e-4 degree; None is
\* the failed lookup.
borough_centers ==
    ("Manhattan" :> <<407831, -739712>>) @@
    ("Brooklyn" :> <<406782, -739442>>) @@
    ("Queens" :> <<407282, -737949>>) @@
    ("Bronx" :> <<408448, -738648>>) @@
    ("Staten Island" :> <<405795, -741502>>)

\* _borough_center(borough): borough_centers.get(borough)
borough_center(borough) ==
    IF borough \in DOMAIN borough_centers THEN borough_centers[borough] ELSE None

\* Mutant of geocode: the request is sent first and the sleep follows it.
geocode_request_first(address, response) ==
    IF address = << >>
    THEN [coords |-> None, events |-> << >>]
    ELSE [coords |-> response, events |-> <<"request", "sleep">>]

\* geocode(address, city, state) when the service would answer `response`
\* (None: no result, a non-200 status or an exception): no request for an
\* empty address; else one second of sleep, then one request.  The address
\* is a street address or a zip code, both sequences of characters.
geocode(address, response) ==
    IF address = << >>
    THEN [coords |-> None, events |-> << >>]
    ELSE [coords |-> response, events |-> <<"sleep", "request">>]

\* Mutant of geocode_with_fallback: the borough table is consulted before the
\* zip code.
geocode_with_fallback_borough_first(address, zip_code, borough, service) ==
    LET first == geocode(address, service.address)
        second == geocode(zip_code, service.zip_code)
    IN  IF first.coords # None
        THEN [coords |-> first.coords, events |-> first.events, tried |-> <<1>>]
        ELSE IF borough # "" /\ borough_center(borough) # None
        THEN [coords |-> borough_center(borough), events |-> first.events,
              tried |-> <<1, 3>>]
        ELSE IF zip_code # << >>
        THEN [coords |-> second.coords, events |-> first.events \o second.events,
              tried |-> <<1, 3, 2>>]
        ELSE [coords |-> None, events |-> first.events, tried |-> <<1, 3>>]

\* geocode_with_fallback(address, city, state, zip_code, borough) when the
\* service would answer service.address to the address query and
\* service.zip_code to the zip query.  tried lists the strategies entered
\* (1 full address, 2 zip code, 3 borough center).
geocode_with_fallback(address, zip_code, borough, service) ==
    LET first == geocode(address, service.address)
        second == geocode(zip_code, service.zip_code)
        zip_tried == IF zip_code # << >> THEN <<2>> ELSE << >>
        zip_events == IF zip_code # << >> THEN second.events ELSE << >>
    IN  IF first.coords # None
        THEN [coords |-> first.coords, events |-> first.events, tried |-> <<1>>]
        ELSE IF zip_code # << >> /\ second.coords # None
        THEN [coords |-> second.coords, events |-> first.events \o second.events,
              tried |-> <<1, 2>>]
        ELSE IF borough # ""
        THEN [coords |-> borough_center(borough),
              events |-> first.events \o zip_events,
              tried |-> <<1>> \o zip_tried \o <<3>>]
        ELSE [coords |-> None, events |-> first.events \o zip_events,
              tried |-> <<1>> \o zip_tried]

\* ---------------------------------------------------------------- records
\* RawServiceData with the defaults of its optional fields; `over` gives the
\* fields that differ.
RawServiceData(over) ==
    LET base == [name |-> NAME_EAST,
                 organization_name |-> "",
                 description |-> "",
                 street_address |-> ADDR_10,
                 city |-> "New York",
                 state |-> "NY",
                 zip_code |-> << >>,
                 borough |-> "Manhattan",
                 phone |-> "",
                 website |-> "",
                 service_types |-> <<"food">>,
                 service_capacities |-> << >>,
                 operating_hours |-> << >>,
                 wheelchair_accessible |-> "None",
                 languages_spoken |-> << >>,
                 external_id |-> "e1",
                 data_source |-> "A"]
    IN  [k \in DOMAIN base |-> IF k \in DOMAIN over THEN over[k] ELSE base[k]]

\* Records that differ in what find_match reads: name, street address,
\* borough and the (data_source, external_id) pair.
IdentityFeed ==
    {RawServiceData([external_id |-> "e1"]),
     RawServiceData([name |-> NAME_EAST_WING, street_address |-> ADDR_1,
                     external_id |-> "e2"]),
     RawServiceData([name |-> NAME_EAST_ANNEX, external_id |-> "e2"]),
     RawServiceData([name |-> NAME_EAST_LOWER, street_address |-> ADDR_11,
                     external_id |-> "e2"]),
     RawServiceData([name |-> NAME_EAST_ANNEX, street_address |-> ADDR_11,
                     external_id |-> "e2"]),
     RawServiceData([name |-> NAME_EAST_LOWER, borough |-> "Brooklyn",
                     external_id |-> "e2"]),
     RawServiceData([borough |-> "", external_id |-> ""]),
     RawServiceData([name |-> NAME_EAST_LOWER, street_address |-> << >>,
                     external_id |-> "e2"]),
     RawServiceData([name |-> NAME_FOOD, street_address |-> ADDR_ELM,
                     external_id |-> "e1"]),
     RawServiceData([name |-> NAME_EAST_ANNEX, external_id |-> "e1"]),
     RawServiceData([external_id |-> "e1", data_source |-> "B"])}

\* ServiceCapacity and OperatingHours values of the records.
CAP_FOOD_40 == [service_type |-> "food", capacity |-> Some(40), notes |-> "ID required"]
CAP_FOOD_NONE == [service_type |-> "food", capacity |-> None, notes |-> ""]
CAP_SHELTER_90 == [service_type |-> "shelter", capacity |-> Some(90), notes |-> "Men only"]
HOURS_MON == [day_of_week |-> 1, open_time |-> Some(540), close_time |-> Some(1020),
              is_24_hours |-> FALSE, is_closed |-> FALSE, notes |-> ""]
HOURS_SUN_CLOSED == [day_of_week |-> 0, open_time |-> None, close_time |-> None,
                     is_24_hours |-> FALSE, is_closed |-> TRUE, notes |-> ""]

\* Records of one upstream identity that differ in the descriptive fields,
\* and a second identity.
FieldsFeed ==
    {RawServiceData([external_id |-> "e1"]),
     RawServiceData([external_id |-> "e1", description |-> "beds",
                     organization_name |-> "Hope Org", phone |-> "212-555-0100",
                     website |-> "hope.example", wheelchair_accessible |-> "True",
                     languages_spoken |-> <<"English">>]),
     RawServiceData([external_id |-> "e1", name |-> NAME_FOOD,
                     description |-> "meals", phone |-> "718-555-0199",
                     wheelchair_accessible |-> "False",
                     languages_spoken |-> <<"Spanish">>]),
     RawServiceData([external_id |-> "e2", name |-> NAME_FOOD,
                     street_address |-> ADDR_ELM, borough |-> "Brooklyn",
                     wheelchair_accessible |-> "True"])}

\* The slug lists and capacity lists add_services is called with.
SlugLists == {<<"food">>, <<"shelter", "food">>, <<"pantry">>, << >>}
CapacityLists == {<< >>, <<CAP_FOOD_40, CAP_SHELTER_90>>, <<CAP_FOOD_40, CAP_FOOD_NONE>>}
HoursLists == {<< >>, <<HOURS_MON>>, <<HOURS_MON, HOURS_SUN_CLOSED>>}

\* Coordinates in units of 1e-4 degree: two points in the city and (0, 0).
PT_MIDTOWN == <<407500, -739800>>
PT_DOWNTOWN == <<407100, -740000>>
PT_ZERO == <<0, 0>>

VARIABLES
    db,          \* the committed tables
    sess,        \* the tables as the open session sees them
    sess_ok,     \* FALSE once a flush failed and no rollback() followed
    runner,      \* the pipeline runner in progress, "idle" between runs
    raw_data,    \* the runner's list of scraped records
    idx,         \* the position of the next record in raw_data
    stats,       \* the runner's counters
    runs,        \* pipeline runs started
    prev,        \* the previous run: its list and how it went
    step,        \* the last operation: its inputs and what it did
    feed,        \* which records a Deduplicator client draws from
    calls,       \* Deduplicator calls made by that client
    geo,         \* a Geocoder call: its arguments, the service's answers, its result
    workers      \* runs in progress at once: each one's list, position, open work

vars == <<db, sess, sess_ok, runner, raw_data, idx, stats, runs, prev, step,
          feed, calls, geo, workers>>

pipeVars == <<db, sess_ok, runner, raw_data, idx, stats, runs, prev, workers>>

NoStep == [op |-> "none"]
NoCall == [op |-> "none"]
NoStats == [created |-> 0, updated |-> 0, skipped |-> 0, failed |-> 0,
            skipped_no_address |-> 0]
NoPrev == [runner |-> "idle", raw_data |-> << >>, clean |-> FALSE, locs |-> 0,
           rerun |-> FALSE, before |-> 0]

InitPipeline ==
    /\ db = EmptyStore
    /\ sess = EmptyStore
    /\ sess_ok = TRUE
    /\ runner = "idle"
    /\ raw_data = << >>
    /\ idx = 1
    /\ stats = NoStats
    /\ runs = 0
    /\ prev = NoPrev
    /\ step = NoStep
    /\ workers = << >>

\* ------------------------------------------- a client of the Deduplicator
\* Calls made on one session, in any order, bounded by MaxCalls.
MaxCalls == 3

InitDedup ==
    /\ InitPipeline
    /\ feed \in {"identity", "fields"}
    /\ calls = 0
    /\ geo = NoCall

\* The records of the client's feed.
Feed == IF feed = "identity" THEN IdentityFeed ELSE FieldsFeed

\* deduplicator.find_match(raw_data)
DedupFindMatch ==
    /\ calls < MaxCalls
    /\ \E raw \in Feed : \E existing \in find_match(sess, raw) :
          step' = [op |-> "find_match", raw_data |-> raw, existing |-> existing]
    /\ calls' = calls + 1
    /\ UNCHANGED <<sess, feed, pipeVars, geo>>

\* deduplicator.create_or_update(raw_data, coords)
DedupCreateOrUpdate ==
    /\ calls < MaxCalls
    /\ \E raw \in Feed : \E coords \in {None, PT_MIDTOWN, PT_DOWNTOWN} :
       \E existing \in IF create_or_update_raises(coords) # "None"
                        THEN {NoLocation} ELSE find_match(sess, raw) :
          /\ (coords # None /\ existing = NoLocation)
                => Len(sess.locs) < MaxLocs
          /\ sess' = create_or_update(sess, raw, coords, existing)
          /\ step' = [op |-> "create_or_update", raw_data |-> raw,
                      coords |-> coords, existing |-> existing,
                      raised |-> create_or_update_raises(coords),
                      location |-> IF create_or_update_raises(coords) # "None"
                                   THEN NoLocation
                                   ELSE ReturnedLocation(sess, existing)]
    /\ calls' = calls + 1
    /\ UNCHANGED <<feed, pipeVars, geo>>

\* deduplicator.add_services(location, service_type_slugs, service_capacities)
DedupAddServices ==
    /\ calls < MaxCalls
    /\ feed = "fields"
    /\ \E location \in DOMAIN sess.locs : \E slugs \in SlugLists :
       \E caps \in CapacityLists :
          /\ sess' = add_services(sess, location, slugs, caps)
          /\ step' = [op |-> "add_services", location |-> location,
                      service_type_slugs |-> slugs, service_capacities |-> caps,
                      held |-> {ls.service_type_id :
                                  ls \in {x \in sess.svcs : x.location_id = location}}]
    /\ calls' = calls + 1
    /\ UNCHANGED <<feed, pipeVars, geo>>

\* deduplicator.add_operating_hours(location, operating_hours_list)
DedupAddOperatingHours ==
    /\ calls < MaxCalls
    /\ feed = "fields"
    /\ \E location \in DOMAIN sess.locs : \E hours \in HoursLists :
          /\ sess' = add_operating_hours(sess, location, hours)
          /\ step' = [op |-> "add_operating_hours", location |-> location,
                      operating_hours_list |-> hours]
    /\ calls' = calls + 1
    /\ UNCHANGED <<feed, pipeVars, geo>>

\* A maintenance script marks a location deleted:
\* UPDATE service_locations SET deleted_at = NOW() WHERE id = :id AND deleted_at IS NULL
SoftDelete(d, location) == [d EXCEPT !.locs[location].deleted_at = "set"]

DedupSoftDelete ==
    /\ calls < MaxCalls
    /\ \E location \in DOMAIN sess.locs :
          /\ sess.locs[location].deleted_at = "None"
          /\ sess' = SoftDelete(sess, location)
          /\ step' = [op |-> "soft_delete", location |-> location]
    /\ calls' = calls + 1
    /\ UNCHANGED <<feed, pipeVars, geo>>

NextDedup ==
    \/ DedupFindMatch
    \/ DedupCreateOrUpdate
    \/ DedupAddServices
    \/ DedupAddOperatingHours
    \/ DedupSoftDelete

SpecDedup == InitDedup /\ [][NextDedup]_vars

\* ------------------------------------------------- a client of the Geocoder
\* What the geocoding service can answer: nothing, or a point.
ServiceAnswers ==
    [address : {None, PT_MIDTOWN, PT_ZERO}, zip_code : {None, PT_DOWNTOWN}]

GeoAddresses == {<< >>, ADDR_10}
GeoZipCodes == {<< >>, ZIP_10001}
GeoBoroughs == {"", "Manhattan", "Brooklyn", "Queens", "Bronx", "Staten Island",
                "Albany"}

InitGeo ==
    /\ InitPipeline
    /\ feed = "identity"
    /\ calls = 0
    /\ geo = NoCall

\* geocoder.geocode_with_fallback(address, city, state, zip_code, borough)
GeocodeWithFallback ==
    \E address \in GeoAddresses, zip_code \in GeoZipCodes,
       borough \in GeoBoroughs, service \in ServiceAnswers :
        geo' = [op |-> "geocode_with_fallback", address |-> address,
                zip_code |-> zip_code, borough |-> borough, service |-> service,
                result |-> geocode_with_fallback(address, zip_code, borough, service)]

\* geocoder.geocode(address, city, state)
Geocode ==
    \E address \in GeoAddresses, service \in ServiceAnswers :
        geo' = [op |-> "geocode", address |-> address, service |-> service,
                result |-> geocode(address, service.address)]

NextGeo ==
    \/ GeocodeWithFallback /\ UNCHANGED <<sess, step, feed, calls, pipeVars>>
    \/ Geocode /\ UNCHANGED <<sess, step, feed, calls, pipeVars>>

SpecGeo == InitGeo /\ [][NextGeo]_vars

\* ------------------------------------------------------ the pipeline runners
\* The records the scrapers hand to the runners.
P_EAST ==
    RawServiceData([external_id |-> "e1", phone |-> "212-555-0100",
                    service_capacities |-> <<CAP_FOOD_40>>,
                    operating_hours |-> <<HOURS_MON>>])
P_MOVED ==
    RawServiceData([external_id |-> "e1", name |-> NAME_FOOD,
                    phone |-> "718-555-0199",
                    street_address |-> ADDR_ELM, zip_code |-> ZIP_10001,
                    borough |-> "Brooklyn", service_types |-> <<"shelter", "food">>])
P_NOADDR ==
    RawServiceData([external_id |-> "e3", street_address |-> << >>,
                    zip_code |-> ZIP_10001])
P_EAST_LOWER == RawServiceData([external_id |-> "e3", name |-> NAME_EAST_LOWER])

\* external_id=str(hash(...)): Python salts str hashes per process, so the id
\* of such a record depends on the seed of the process that scrapes it.
HashSeeds == {1, 2}
hash(seed) == IF seed = 1 THEN "h1" ELSE "h2"
Hashed == {hash(seed) : seed \in HashSeeds}

\* A drop-in center of NYCOpenDataScraper whose row names no borough.
P_HASHED == RawServiceData([external_id |-> hash(1), borough |-> ""])

PipelineFeed == {P_EAST, P_MOVED, P_NOADDR, P_EAST_LOWER, P_HASHED}

\* The lists the sources stand for: up to MaxRecs records.
SourceLists ==
    UNION {[1..n -> PipelineFeed] : n \in 1..MaxRecs}

\* scraper.scrape() in a process with the given hash seed.
scrape(list, seed) ==
    [i \in DOMAIN list |->
        IF list[i].external_id \in Hashed
        THEN [list[i] EXCEPT !.external_id = hash(seed)]
        ELSE list[i]]

\* BaseScraper.validate_result: name, street address and service types present.
validate_result(data) ==
    /\ data.name # << >>
    /\ data.street_address # << >>
    /\ data.service_types # << >>

Runners == {"main", "cfc", "major", "dhs"}

\* The records reach run_all_scrapers and run_dhs_shelter_scraper through
\* scraper.run(), which keeps the valid ones; the other two runners call
\* scraper.scrape() directly.
ScrapedBy(r, list) ==
    r \in {"main", "dhs"} => \A i \in DOMAIN list : validate_result(list[i])

Init ==
    /\ InitPipeline
    /\ feed = "pipeline"
    /\ calls = 0
    /\ geo = NoCall

\* What the sources hold: any list at the first run; they are unchanged
\* afterwards, so a later run scrapes the list of the run before.
Scraped == IF runs = 0 THEN SourceLists ELSE {raw_data}

\* A runner opens its session (with get_db() as db) and scrapes its list.
StartRun ==
    /\ runner = "idle"
    /\ runs < MaxRuns
    /\ \E r \in Runners, list \in Scraped, seed \in HashSeeds :
          /\ ScrapedBy(r, list)
          /\ runner' = r
          /\ raw_data' = scrape(list, seed)
    /\ idx' = 1
    /\ stats' = NoStats
    /\ runs' = runs + 1
    /\ step' = [op |-> "start_run"]
    /\ UNCHANGED <<db, sess, sess_ok, prev, feed, calls, geo, workers>>

\* What the geocoding service can answer for a record: nothing, or the place
\* it holds for the street address; nothing, or a place for the zip code.
Nominatim(data) ==
    {service \in ServiceAnswers :
        service.address \in {None, IF data.street_address = ADDR_ELM
                                   THEN PT_ZERO ELSE PT_MIDTOWN}}

\* The requests a geocoder call sent.
Requests(events) == Cardinality({i \in DOMAIN events : events[i] = "request"})

\* existing.latitude and existing.longitude and both != 0
ValidCoords(location) == location.latitude # 0 /\ location.longitude # 0

\* if existing: updated += 1 else: created += 1
Counted(counters, existing) ==
    IF existing # NoLocation
    THEN [counters EXCEPT !.updated = @ + 1]
    ELSE [counters EXCEPT !.created = @ + 1]

\* create_or_update, add_services, add_operating_hours on the session, where
\* create_or_update's own find_match returned `inner`.
StoreRecord(d, data, coords, inner) ==
    LET location == ReturnedLocation(d, inner)
        created == create_or_update(d, data, coords, inner)
        serviced == add_services(created, location, data.service_types,
                                 data.service_capacities)
    IN  add_operating_hours(serviced, location, data.operating_hours)

\* Where the database can raise while a record is persisted: inside
\* create_or_update (its flush), or at db.commit().
Faults == {"none", "create_or_update", "commit"}

\* What a record's step leaves in `step`.
RecordStep(data, geocoding, requests, existing, fault) ==
    [op |-> "record", raw_data |-> data, geocoding |-> geocoding,
     requests |-> requests, existing |-> existing, fault |-> fault]

\* The try-body from create_or_update to db.commit() and the except clause
\* with db.rollback(), as in run_all_scrapers, run_cfc_scraper and
\* run_dhs_shelter_scraper.  `existing` is what the runner's find_match
\* returned.  A row is added only while the store has room.
CommitRecord(data, coords, existing, geocoding, requests) ==
    \E inner \in find_match(sess, data), fault \in Faults :
        /\ inner = NoLocation => Len(sess.locs) < MaxLocs
        /\ step' = RecordStep(data, geocoding, requests, existing, fault)
        /\ CASE fault = "create_or_update" ->
                  /\ stats' = [stats EXCEPT !.failed = @ + 1]
                  /\ sess' = db
                  /\ UNCHANGED db
             [] fault = "commit" ->
                  /\ stats' = [Counted(stats, existing) EXCEPT !.failed = @ + 1]
                  /\ sess' = db
                  /\ UNCHANGED db
             [] OTHER ->
                  /\ stats' = Counted(stats, existing)
                  /\ sess' = StoreRecord(sess, data, coords, inner)
                  /\ db' = sess'

\* A record that is not persisted: only a counter moves.
PassRecord(data, counter, geocoding, requests) ==
    /\ stats' = [stats EXCEPT ![counter] = @ + 1]
    /\ step' = RecordStep(data, geocoding, requests, NoLocation, "none")
    /\ UNCHANGED <<db, sess>>

\* run_all_scrapers, one pass of the record loop.
MainRecord ==
    /\ runner = "main"
    /\ idx <= Len(raw_data)
    /\ LET data == raw_data[idx]
       IN  \E service \in Nominatim(data) :
             LET g == geocode_with_fallback(data.street_address, data.zip_code,
                                            data.borough, service)
             IN  IF g.coords = None
                 THEN PassRecord(data, "failed", "failed", Requests(g.events))
                 ELSE \E existing \in find_match(sess, data) :
                         CommitRecord(data, g.coords, existing, "ok",
                                      Requests(g.events))
    /\ idx' = idx + 1
    /\ UNCHANGED <<sess_ok, runner, raw_data, runs, prev, feed, calls, geo, workers>>

\* run_dhs_shelter_scraper, one pass of the record loop.
DhsRecord ==
    /\ runner = "dhs"
    /\ idx <= Len(raw_data)
    /\ LET data == raw_data[idx]
       IN  IF data.street_address = << >>
           THEN PassRecord(data, "skipped_no_address", "none", 0)
           ELSE \E service \in Nominatim(data) :
                  LET g == geocode_with_fallback(data.street_address,
                               data.zip_code, data.borough, service)
                  IN  IF g.coords = None
                      THEN PassRecord(data, "failed", "failed", Requests(g.events))
                      ELSE \E existing \in find_match(sess, data) :
                              CommitRecord(data, g.coords, existing, "ok",
                                           Requests(g.events))
    /\ idx' = idx + 1
    /\ UNCHANGED <<sess_ok, runner, raw_data, runs, prev, feed, calls, geo, workers>>

\* run_cfc_scraper, one pass of the record loop.  The geocoding call runs
\* under @timeout(30): it can be cut off before it returns.
CfcRecord ==
    /\ runner = "cfc"
    /\ idx <= Len(raw_data)
    /\ LET data == raw_data[idx]
       IN  \E existing \in find_match(sess, data) :
             IF existing # NoLocation /\ ValidCoords(sess.locs[existing])
             THEN CommitRecord(data,
                               <<sess.locs[existing].latitude,
                                 sess.locs[existing].longitude>>,
                               existing, "none", 0)
             ELSE IF data.street_address = << >>
             THEN PassRecord(data, "skipped", "none", 0)
             ELSE \E service \in Nominatim(data), timed_out \in BOOLEAN :
                    LET g == geocode_with_fallback(data.street_address,
                                 data.zip_code, data.borough, service)
                    IN  IF timed_out
                        THEN PassRecord(data, "skipped", "timeout",
                                        Requests(g.events))
                        ELSE IF g.coords = None
                        THEN PassRecord(data, "skipped", "failed",
                                        Requests(g.events))
                        ELSE CommitRecord(data, g.coords, existing, "ok",
                                          Requests(g.events))
    /\ idx' = idx + 1
    /\ UNCHANGED <<sess_ok, runner, raw_data, runs, prev, feed, calls, geo, workers>>

\* Where the database can raise in run_major_shelters_scraper, which does not
\* commit per record: at a flush, in create_or_update or in
\* add_operating_hours (reached with a non-empty list only).
MajorFaults == {"none", "create_or_update", "add_operating_hours"}

\* run_major_shelters_scraper, one pass of the record loop: geocode() only,
\* no db.commit() and no db.rollback().  A failed flush rolls the session's
\* transaction back and leaves it inactive: what earlier records left
\* uncommitted is gone and every later use of the session raises.
MajorRecord ==
    /\ runner = "major"
    /\ idx <= Len(raw_data)
    /\ LET data == raw_data[idx]
       IN  IF data.street_address = << >>
           THEN PassRecord(data, "skipped", "none", 0) /\ UNCHANGED sess_ok
           ELSE \E service \in Nominatim(data), timed_out \in BOOLEAN :
                  LET g == geocode(data.street_address, service.address)
                  IN  IF timed_out
                      THEN /\ PassRecord(data, "skipped", "timeout",
                                         Requests(g.events))
                           /\ UNCHANGED sess_ok
                      ELSE IF g.coords = None
                      THEN /\ PassRecord(data, "skipped", "failed",
                                         Requests(g.events))
                           /\ UNCHANGED sess_ok
                      ELSE IF ~sess_ok
                      THEN /\ stats' = [stats EXCEPT !.failed = @ + 1]
                           /\ step' = RecordStep(data, "ok", Requests(g.events),
                                                 NoLocation, "session")
                           /\ UNCHANGED <<db, sess, sess_ok>>
                      ELSE \E existing \in find_match(sess, data),
                              inner \in find_match(sess, data),
                              fault \in MajorFaults :
                             /\ inner = NoLocation => Len(sess.locs) < MaxLocs
                             /\ fault = "add_operating_hours"
                                   => data.operating_hours # << >>
                             /\ step' = RecordStep(data, "ok", Requests(g.events),
                                                   existing, fault)
                             /\ UNCHANGED db
                             /\ CASE fault = "create_or_update" ->
                                       /\ stats' = [stats EXCEPT !.failed = @ + 1]
                                       /\ sess' = db
                                       /\ sess_ok' = FALSE
                                  [] fault = "add_operating_hours" ->
                                       /\ stats' = [Counted(stats, existing)
                                                      EXCEPT !.failed = @ + 1]
                                       /\ sess' = db
                                       /\ sess_ok' = FALSE
                                  [] OTHER ->
                                       /\ stats' = Counted(stats, existing)
                                       /\ sess' = StoreRecord(sess, data, g.coords,
                                                              inner)
                                       /\ UNCHANGED sess_ok
    /\ idx' = idx + 1
    /\ UNCHANGED <<runner, raw_data, runs, prev, feed, calls, geo, workers>>

\* The run was clean: every record of the list was created or updated.
CleanRun ==
    /\ stats.created + stats.updated = Len(raw_data)
    /\ stats.failed = 0

\* The loop is over and get_db() leaves its with-block: session.commit(), or
\* session.rollback() when that raises; then session.close().  Only
\* run_major_shelters_scraper has anything left to commit.
EndRun ==
    /\ runner # "idle"
    /\ idx > Len(raw_data)
    /\ \E raised \in BOOLEAN :
          /\ raised => runner = "major" /\ sess # db
          /\ ~raised => sess_ok
          /\ db' = IF raised THEN db ELSE sess
          /\ step' = [op |-> "end_run", raised |-> raised]
          /\ prev' = [runner |-> runner, raw_data |-> raw_data,
                      clean |-> CleanRun /\ ~raised,
                      locs |-> Len(db'.locs),
                      rerun |-> /\ prev.clean
                                /\ scrape(prev.raw_data, 1) = scrape(raw_data, 1)
                                /\ prev.runner = runner,
                      before |-> prev.locs]
    /\ sess' = db'
    /\ sess_ok' = TRUE
    /\ runner' = "idle"
    /\ UNCHANGED <<raw_data, idx, stats, runs, feed, calls, geo, workers>>

\* Between runs a maintenance script marks a location deleted.
PipelineSoftDelete ==
    /\ runner = "idle"
    /\ \E location \in DOMAIN db.locs :
          /\ db.locs[location].deleted_at = "None"
          /\ db' = SoftDelete(db, location)
          /\ step' = [op |-> "soft_delete", location |-> location]
    /\ sess' = db'
    /\ prev' = NoPrev
    /\ UNCHANGED <<sess_ok, runner, raw_data, idx, stats, runs, feed, calls, geo, workers>>

Next ==
    \/ StartRun
    \/ MainRecord
    \/ CfcRecord
    \/ MajorRecord
    \/ DhsRecord
    \/ EndRun
    \/ PipelineSoftDelete

Spec == Init /\ [][Next]_vars

\* --------------------------------------------------- claims on the Geocoder
\* C9: geocode_with_fallback enters the strategies in the order full address,
\* zip code, borough table, each only after the earlier ones failed, returns
\* the first success, and returns None exactly when the address lookup fails,
\* the zip lookup fails or no zip is given, and the borough is absent or not
\* one of the five boroughs of the table.
C9_FallbackOrder ==
    geo.op = "geocode_with_fallback" =>
        LET address_fails == geo.address = << >> \/ geo.service.address = None
            zip_fails == geo.zip_code = << >> \/ geo.service.zip_code = None
            borough_fails ==
                geo.borough \notin {"Manhattan", "Brooklyn", "Queens", "Bronx",
                                    "Staten Island"}
            tried == geo.result.tried
        IN  /\ tried # << >> /\ tried[1] = 1
            /\ \A i, j \in DOMAIN tried : i < j => tried[i] < tried[j]
            /\ (\E i \in DOMAIN tried : tried[i] = 2)
                  <=> (address_fails /\ geo.zip_code # << >>)
            /\ (\E i \in DOMAIN tried : tried[i] = 3)
                  <=> (address_fails /\ zip_fails /\ geo.borough # "")
            /\ ~address_fails => geo.result.coords = geo.service.address
            /\ (address_fails /\ ~zip_fails)
                  => geo.result.coords = geo.service.zip_code
            /\ (address_fails /\ zip_fails /\ ~borough_fails)
                  => geo.result.coords = borough_centers[geo.borough]
            /\ geo.result.coords = None
                  <=> (address_fails /\ zip_fails /\ borough_fails)
            /\ Cardinality(DOMAIN borough_centers) = 5

\* C9 witness: the address and the zip lookups both failed and the borough
\* table answered.
C9_Witness ==
    /\ geo.op = "geocode_with_fallback"
    /\ geo.address # << >> /\ geo.service.address = None
    /\ geo.zip_code # << >> /\ geo.service.zip_code = None
    /\ geo.result.tried = <<1, 2, 3>>
    /\ geo.result.coords = borough_centers["Queens"]

\* ------------------------------------------------ claims on the Deduplicator
\* The record carries an upstream identity: both fields are non-empty.
HasIdentity(raw) == raw.external_id # "" /\ raw.data_source # ""

\* The stored locations with the record's (data_source, external_id).
SameIdentity(d, raw) ==
    {i \in DOMAIN d.locs : /\ d.locs[i].data_source = raw.data_source
                           /\ d.locs[i].external_id = raw.external_id}

\* The stored, non-deleted locations of the record's borough whose name is
\* more than 0.85 similar and whose street address is more than 0.8 similar.
ClearsBoth(d, raw) ==
    {i \in DOMAIN d.locs :
        /\ raw.borough # ""
        /\ d.locs[i].borough = raw.borough
        /\ d.locs[i].deleted_at = "None"
        /\ name_similarity(raw, d.locs[i])[1] * 100
              > 85 * name_similarity(raw, d.locs[i])[2]
        /\ address_similarity(raw, d.locs[i])[1] * 10
              > 8 * address_similarity(raw, d.locs[i])[2]}

\* C2: find_match returns a stored location with the record's (data_source,
\* external_id) whenever the record carries that pair and such a location is
\* stored, whatever the fuzzy tier would say; a location of another identity
\* is returned only when the identity tier found nothing.
C2_IdentityMatchWins ==
    step.op = "find_match" =>
        LET raw == step.raw_data
        IN  (HasIdentity(raw) /\ SameIdentity(sess, raw) # {})
                => step.existing \in SameIdentity(sess, raw)

\* C2 witness: find_match returned the identity match while another stored
\* location of the same borough clears both fuzzy thresholds.
C2_Witness ==
    /\ step.op = "find_match"
    /\ HasIdentity(step.raw_data)
    /\ step.existing \in SameIdentity(sess, step.raw_data)
    /\ ClearsBoth(sess, step.raw_data) \ SameIdentity(sess, step.raw_data) # {}

\* C3: when the identity tier finds nothing, find_match returns only a
\* non-deleted location of the record's borough with name similarity > 0.85
\* and address similarity > 0.8 (both strict), and returns None exactly when
\* no location clears both.
C3_FuzzyThresholds ==
    step.op = "find_match" =>
        LET raw == step.raw_data
        IN  (~HasIdentity(raw) \/ SameIdentity(sess, raw) = {}) =>
                /\ step.existing # NoLocation
                      => step.existing \in ClearsBoth(sess, raw)
                /\ step.existing = NoLocation <=> ClearsBoth(sess, raw) = {}

\* C3 witness: find_match returned None although a non-deleted location of the
\* borough has name similarity exactly 0.85 and address similarity exactly 0.8.
C3_Witness ==
    /\ step.op = "find_match"
    /\ step.existing = NoLocation
    /\ \E i \in DOMAIN sess.locs :
          /\ sess.locs[i].borough = step.raw_data.borough
          /\ sess.locs[i].deleted_at = "None"
          /\ name_similarity(step.raw_data, sess.locs[i])[1] * 100
                = 85 * name_similarity(step.raw_data, sess.locs[i])[2]
          /\ address_similarity(step.raw_data, sess.locs[i])[1] * 10
                = 8 * address_similarity(step.raw_data, sess.locs[i])[2]

\* C4: after create_or_update found a match, every descriptive field present
\* in the record (a wheelchair flag of False included) and the coordinates
\* have replaced the stored values; without a match the inserted location
\* has verified = false.
C4_NewValuesWin ==
    (step.op = "create_or_update" /\ step.raised = "None") =>
        LET raw == step.raw_data
            loc == sess.locs[step.location]
        IN  /\ step.existing # NoLocation =>
                /\ loc.name = raw.name
                /\ raw.description # "" => loc.description = raw.description
                /\ raw.organization_name # ""
                      => loc.organization_name = raw.organization_name
                /\ raw.phone # "" => loc.phone = raw.phone
                /\ raw.website # "" => loc.website = raw.website
                /\ raw.wheelchair_accessible # "None"
                      => loc.wheelchair_accessible = raw.wheelchair_accessible
                /\ raw.languages_spoken # << >>
                      => loc.languages_spoken = raw.languages_spoken
                /\ <<loc.latitude, loc.longitude>> = step.coords
            /\ step.existing = NoLocation => loc.verified = FALSE

C1_RerunCreatesNoLocation ==
    (runner = "idle" /\ prev.rerun /\ prev.runner = "main")
        => prev.locs = prev.before

\* The non-deleted locations of the store that carry an upstream identity.
Identified(d) ==
    {i \in DOMAIN d.locs : /\ d.locs[i].deleted_at = "None"
                           /\ d.locs[i].data_source # ""
                           /\ d.locs[i].external_id # ""}

\* No two non-deleted locations of the store carry the same identity.
IdentityUnique(d) ==
    \A i, j \in Identified(d) :
        (/\ d.locs[i].data_source = d.locs[j].data_source
         /\ d.locs[i].external_id = d.locs[j].external_id) => i = j

\* C5: at every point of every sequence of runs, in the committed store and
\* in the open session, no two non-deleted locations share a (data_source,
\* external_id) pair with both fields present.
C5_IdentityUnique == IdentityUnique(db) /\ IdentityUnique(sess)

\* C5 witness: a second run over the same sources has ended; it updated a
\* stored location by its identity, a record of it failed to persist, and
\* the store holds two non-deleted locations with distinct identities.
C5_Witness ==
    /\ runner = "idle"
    /\ runs = 2
    /\ stats.updated >= 1
    /\ stats.failed >= 1
    /\ Cardinality(Identified(db)) >= 2

\* C6: when the database raises while record k is persisted, the committed
\* store is what the session held before record k (the changes of the records
\* before k are committed, none of k's), the session carries nothing of
\* record k, and it stays usable for the records after k.
C6_FailureIsolated ==
    [][(step'.op = "record" /\ step'.fault # "none")
          => (db' = sess /\ sess' = sess /\ sess_ok')]_vars

\* C7: when the record at hand has a stored match with non-zero latitude and
\* longitude, the runner sends no geocoding request for it, and unless the
\* database raises it updates that location with the stored coordinates and
\* commits.
C7_NoGeocodingForStoredMatch ==
    [][(/\ step'.op = "record"
        /\ find_match(sess, raw_data[idx]) # {NoLocation}
        /\ \A i \in find_match(sess, raw_data[idx]) : ValidCoords(sess.locs[i]))
          => (/\ step'.requests = 0
              /\ step'.geocoding = "none"
              /\ step'.fault = "none" =>
                    /\ db' = sess'
                    /\ stats'.updated = stats.updated + 1
                    /\ \E i \in find_match(sess, raw_data[idx]) :
                          /\ db'.locs[i].name = raw_data[idx].name
                          /\ db'.locs[i].latitude = sess.locs[i].latitude
                          /\ db'.locs[i].longitude = sess.locs[i].longitude)]_vars

\* C8: when geocoding a record fails or is cut off by the deadline, the skip
\* counter grows by one and no other counter moves, the store and the session
\* are left as they were, and the run goes on to the next record.
C8_GeocodeFailureSkips ==
    [][(step'.op = "record" /\ step'.geocoding \in {"failed", "timeout"})
          => (/\ stats' = [stats EXCEPT !.skipped = @ + 1]
              /\ db' = db
              /\ sess' = sess
              /\ idx' = idx + 1
              /\ runner' = runner)]_vars

\* The operating_hours rows of a location.
HoursOf(d, location) == {oh \in d.hrs : oh.location_id = location}

\* The rows of the location are the entries of the list, one row per entry.
ExactlyEntries(d, location, operating_hours_list) ==
    /\ Cardinality(HoursOf(d, location)) = Len(operating_hours_list)
    /\ \A k \in DOMAIN operating_hours_list :
          \E oh \in HoursOf(d, location) :
             /\ oh.entry = k
             /\ oh.day_of_week = operating_hours_list[k].day_of_week
             /\ oh.open_time = operating_hours_list[k].open_time
             /\ oh.close_time = operating_hours_list[k].close_time
             /\ oh.is_24_hours = operating_hours_list[k].is_24_hours
             /\ oh.is_closed = operating_hours_list[k].is_closed

\* The last step of the run persisted its record.
Persisted ==
    /\ step.op = "record"
    /\ step.fault = "none"
    /\ step.geocoding = "ok" \/ step.existing # NoLocation

\* C11: when run_all_scrapers has persisted a record, add_operating_hours
\* being its last call on the record's location, the operating_hours rows of
\* that location are exactly the record's entries, one row per entry: no row
\* of an earlier list is left.
C11_HoursReplaced ==
    (Persisted /\ runner = "main" /\ HasIdentity(step.raw_data))
        => \A i \in SameIdentity(sess, step.raw_data) :
              ExactlyEntries(sess, i, step.raw_data.operating_hours)

\* The region the service covers, in units of 1e-4 degree: New York City and
\* its surroundings.
REGION == [min_lat |-> 400000, max_lat |-> 415000,
           min_lon |-> -750000, max_lon |-> -730000]

InRegion(location) ==
    /\ REGION.min_lat <= location.latitude /\ location.latitude <= REGION.max_lat
    /\ REGION.min_lon <= location.longitude /\ location.longitude <= REGION.max_lon

\* C12: every latitude/longitude a runner has stored on a location, in the
\* committed store or in the session, lies inside the region.
C12_StoredInRegion ==
    /\ \A i \in DOMAIN db.locs : InRegion(db.locs[i])
    /\ \A i \in DOMAIN sess.locs : InRegion(sess.locs[i])

\* ------------------------------------------------------ geospatial queries
\* Places of the atlas, <<latitude, longitude>> in units of 1e-4 degree, each
\* a multiple of 0.01 degree: four in the city, three at the 180th meridian
\* and two near the north pole.
PT_MIDTOWN_EAST == <<407500, -739700>>
PT_MIDTOWN_FAR_EAST == <<407500, -739300>>
PT_DATELINE == <<0, 1799900>>
PT_DATELINE_EAST == <<0, 1799000>>
PT_DATELINE_WEST == <<0, -1799900>>
PT_ARCTIC == <<898000, 0>>
PT_POLAR == <<899000, 1800000>>

\* haversine_distance in metres, rounded to the metre, of the pairs of the
\* atlas: R * 2 * atan2(sqrt(a), sqrt(1 - a)) with R = 6371000.
HaversineMeters ==
    (<<PT_MIDTOWN, PT_MIDTOWN>> :> 0) @@
    (<<PT_MIDTOWN, PT_MIDTOWN_EAST>> :> 842) @@
    (<<PT_MIDTOWN, PT_DOWNTOWN>> :> 4756) @@
    (<<PT_MIDTOWN, PT_MIDTOWN_FAR_EAST>> :> 4212) @@
    (<<PT_MIDTOWN, PT_DATELINE_WEST>> :> 11348583) @@
    (<<PT_MIDTOWN, PT_DATELINE_EAST>> :> 11357690) @@
    (<<PT_MIDTOWN, PT_POLAR>> :> 5479427) @@
    (<<PT_DATELINE, PT_MIDTOWN>> :> 11350239) @@
    (<<PT_DATELINE, PT_MIDTOWN_EAST>> :> 11351067) @@
    (<<PT_DATELINE, PT_DOWNTOWN>> :> 11349401) @@
    (<<PT_DATELINE, PT_MIDTOWN_FAR_EAST>> :> 11354378) @@
    (<<PT_DATELINE, PT_DATELINE_WEST>> :> 2224) @@
    (<<PT_DATELINE, PT_DATELINE_EAST>> :> 10008) @@
    (<<PT_DATELINE, PT_POLAR>> :> 9996424) @@
    (<<PT_ARCTIC, PT_MIDTOWN>> :> 5470244) @@
    (<<PT_ARCTIC, PT_MIDTOWN_EAST>> :> 5470240) @@
    (<<PT_ARCTIC, PT_DOWNTOWN>> :> 5474699) @@
    (<<PT_ARCTIC, PT_MIDTOWN_FAR_EAST>> :> 5470225) @@
    (<<PT_ARCTIC, PT_DATELINE_WEST>> :> 10029782) @@
    (<<PT_ARCTIC, PT_DATELINE_EAST>> :> 10029782) @@
    (<<PT_ARCTIC, PT_POLAR>> :> 33358)

haversine_distance(lat1, lon1, lat2, lon2) ==
    HaversineMeters[<<<<lat1, lon1>>, <<lat2, lon2>>>>]

\* math.cos(math.radians(lat)) in units of 1e-6, of the latitudes of the
\* centers of the atlas.
cos_radians ==
    (407500 :> 757565) @@ (0 :> 1000000) @@ (898000 :> 3491)

Min(a, b) == IF a <= b THEN a ELSE b

\* The bounding box of find_nearby, in units of 1e-4 degree.  A latitude or
\* longitude of the store is a whole number of units, so comparing it with
\* the offset rounded down decides as the comparison with the offset does.
lat_offset(radius_km) == (radius_km * 10000) \div 111

lon_offset(radius_km, lat) ==
    (radius_km * 10000000) \div ((111 * cos_radians[lat]) \div 1000)

InBox(location, lat, lon, radius_km) ==
    /\ location.latitude >= lat - lat_offset(radius_km)
    /\ location.latitude <= lat + lat_offset(radius_km)
    /\ location.longitude >= lon - lon_offset(radius_km, lat)
    /\ location.longitude <= lon + lon_offset(radius_km, lat)

\* The clock: a day and a time of day in minutes.  datetime.weekday() counts
\* from Monday = 0.
weekday(now) ==
    CASE now.day = "Monday" -> 0
      [] now.day = "Tuesday" -> 1
      [] now.day = "Wednesday" -> 2
      [] now.day = "Thursday" -> 3
      [] now.day = "Friday" -> 4
      [] now.day = "Saturday" -> 5
      [] now.day = "Sunday" -> 6

\* The day names of the responses, indexed by day_of_week + 1.
day_names == <<"Sunday", "Monday", "Tuesday", "Wednesday", "Thursday",
               "Friday", "Saturday">>

\* _calculate_is_open_now without the conversion of the weekday.
calculate_is_open_now_python_weekday(operating_hours_list, now) ==
    \E hours \in {h \in operating_hours_list : h.day_of_week = weekday(now)} :
       /\ ~hours.is_closed
       /\ \/ hours.is_24_hours
          \/ /\ hours.open_time # None /\ hours.close_time # None
             /\ hours.open_time[1] <= now.time
             /\ now.time <= hours.close_time[1]

\* _calculate_is_open_now: some row of today (0 = Sunday) that is not closed
\* is open around the clock or has the time of day between its open_time and
\* close_time, both included; False for no rows.
\* (The loop returns at the first such row, so it computes the disjunction.)
_calculate_is_open_now(operating_hours_list, now) ==
    LET current_day == (weekday(now) + 1) % 7
        today_hours == {h \in operating_hours_list : h.day_of_week = current_day}
    IN  /\ operating_hours_list # {}
        /\ \E hours \in today_hours :
              /\ ~hours.is_closed
              /\ \/ hours.is_24_hours
                 \/ /\ hours.open_time # None /\ hours.close_time # None
                    /\ hours.open_time[1] <= now.time
                    /\ now.time <= hours.close_time[1]

\* The slugs of the service types a location offers (location_services
\* joined with service_types).
ServicesOf(d, location) ==
    {slug \in DOMAIN ServiceType :
        \E ls \in d.svcs : ls.location_id = location
                              /\ ls.service_type_id = ServiceType[slug]}

SetOf(seq) == {seq[i] : i \in DOMAIN seq}

\* The rows a statement without ORDER BY returns come in an order the
\* database chooses: every enumeration of the rows.
Orderings(S) ==
    {seq \in [1..Cardinality(S) -> S] :
        \A i, j \in 1..Cardinality(S) : i # j => seq[i] # seq[j]}

\* Result.unique(): each entity once, at its first position.
unique(seq) ==
    LET first == {i \in DOMAIN seq : \A j \in 1..(i - 1) : seq[j] # seq[i]}
        place(i) == Cardinality({j \in first : j <= i})
    IN  [p \in 1..Cardinality(first) |-> seq[CHOOSE i \in first : place(i) = p]]

\* list.sort(key=...): ascending in the key, equal keys keep their order.
SortedBy(seq, key) ==
    LET before(j, k) == key[seq[j]] < key[seq[k]] \/ (key[seq[j]] = key[seq[k]] /\ j < k)
        rank(k) == Cardinality({j \in DOMAIN seq : before(j, k)}) + 1
    IN  [p \in DOMAIN seq |-> seq[CHOOSE k \in DOMAIN seq : rank(k) = p]]

\* seq[:n]
Truncated(seq, n) == SubSeq(seq, 1, Min(n, Len(seq)))

\* The elements of a list that are in `keep`, in order.
Filtered(seq, keep) ==
    LET kept == {i \in DOMAIN seq : seq[i] \in keep}
        place(i) == Cardinality({j \in kept : j <= i})
    IN  [p \in 1..Cardinality(kept) |-> seq[CHOOSE i \in kept : place(i) = p]]

\* The join with every service type of the location, whatever its slug.
JoinedTypesUnfiltered(d, location, service_types) == ServicesOf(d, location)

\* The service types the location is joined with under
\* WHERE ServiceType.slug IN service_types: one row of the join for each.
JoinedTypes(d, location, service_types) ==
    ServicesOf(d, location) \cap SetOf(service_types)

\* The rows <<location, slug>> of find_nearby's statement before DISTINCT:
\* the locations that are not deleted and inside the bounding box, once
\* each without service_types, else once for every service type they are
\* joined with.
NearbyRows(d, lat, lon, radius_km, service_types) ==
    LET selected == {i \in DOMAIN d.locs :
                        /\ d.locs[i].deleted_at = "None"
                        /\ InBox(d.locs[i], lat, lon, radius_km)}
    IN  IF service_types = << >> THEN {<<i, "">> : i \in selected}
        ELSE UNION {{<<i, slug>> : slug \in JoinedTypes(d, i, service_types)} :
                       i \in selected}

\* The response built for a location; distance_km in units of 0.001 km.
ServiceLocationResponse(d, location, distance_km, is_open) ==
    [id |-> location,
     latitude |-> d.locs[location].latitude,
     longitude |-> d.locs[location].longitude,
     distance_km |-> distance_km,
     services |-> ServicesOf(d, location),
     is_open_now |-> is_open]

\* round(distance_meters / 1000, 2), in units of 0.001 km.
round2(distance_meters) == ((distance_meters + 5) \div 10) * 10

\* find_nearby: the responses it can return, one list per order in which the
\* database returns the selected rows.
find_nearby(d, lat, lon, radius_km, service_types, open_now, limit, now) ==
    LET safe_limit == Min(limit, 500)
        distance_meters ==
            [i \in DOMAIN d.locs |->
                haversine_distance(lat, lon, d.locs[i].latitude, d.locs[i].longitude)]
        in_radius == {i \in DOMAIN d.locs : distance_meters[i] <= radius_km * 1000}
        is_open(i) == _calculate_is_open_now(HoursOf(d, i), now)
        shown == {i \in DOMAIN d.locs : ~(open_now /\ ~is_open(i))}
        distinct(rows) == {row[1] : row \in rows}
        responses(locations) ==
            LET locations_with_distance ==
                    Truncated(SortedBy(Filtered(unique(locations), in_radius),
                                       distance_meters), safe_limit)
                listed == Filtered(locations_with_distance, shown)
            IN  [p \in DOMAIN listed |->
                    ServiceLocationResponse(d, listed[p],
                                            round2(distance_meters[listed[p]]),
                                            is_open(listed[p]))]
    IN  {responses(locations) :
            locations \in Orderings(distinct(NearbyRows(d, lat, lon, radius_km,
                                                        service_types)))}

\* Rows of operating hours beside HOURS_MON and HOURS_SUN_CLOSED: open around
\* the clock on Monday, marked closed on Monday though it has times, Tuesday
\* 9 to 17, and a Monday row without times.
HOURS_MON_24 == [day_of_week |-> 1, open_time |-> None, close_time |-> None,
                 is_24_hours |-> TRUE, is_closed |-> FALSE, notes |-> ""]
HOURS_MON_SHUT == [day_of_week |-> 1, open_time |-> Some(540), close_time |-> Some(1020),
                   is_24_hours |-> FALSE, is_closed |-> TRUE, notes |-> ""]
HOURS_TUE == [day_of_week |-> 2, open_time |-> Some(540), close_time |-> Some(1020),
              is_24_hours |-> FALSE, is_closed |-> FALSE, notes |-> ""]
HOURS_MON_NOTIME == [day_of_week |-> 1, open_time |-> None, close_time |-> None,
                     is_24_hours |-> FALSE, is_closed |-> FALSE, notes |-> ""]

\* What the tables hold about one location when the queries run: where it
\* is, the service types and hours the scraper stored, and whether it was
\* soft-deleted since.
Sites ==
    {[coords |-> PT_MIDTOWN, service_types |-> <<"shelter", "food">>,
      operating_hours |-> <<HOURS_MON_SHUT, HOURS_MON>>, deleted |-> FALSE],
     [coords |-> PT_MIDTOWN, service_types |-> <<"hygiene">>,
      operating_hours |-> <<HOURS_MON_NOTIME, HOURS_SUN_CLOSED>>, deleted |-> FALSE],
     [coords |-> PT_MIDTOWN_EAST, service_types |-> <<"food">>,
      operating_hours |-> <<HOURS_MON>>, deleted |-> FALSE],
     [coords |-> PT_MIDTOWN_EAST, service_types |-> <<"food">>,
      operating_hours |-> <<HOURS_MON_24>>, deleted |-> TRUE],
     [coords |-> PT_DOWNTOWN, service_types |-> <<"shelter", "hygiene">>,
      operating_hours |-> <<HOURS_MON_24>>, deleted |-> FALSE],
     [coords |-> PT_MIDTOWN_FAR_EAST, service_types |-> <<"food">>,
      operating_hours |-> << >>, deleted |-> FALSE],
     [coords |-> PT_DATELINE_WEST, service_types |-> <<"food">>,
      operating_hours |-> <<HOURS_MON>>, deleted |-> FALSE],
     [coords |-> PT_DATELINE_EAST, service_types |-> <<"food">>,
      operating_hours |-> << >>, deleted |-> FALSE],
     [coords |-> PT_POLAR, service_types |-> <<"shelter">>,
      operating_hours |-> <<HOURS_TUE>>, deleted |-> FALSE]}

\* The most locations a queried store holds.
MaxSites == 2

\* The store after the scraper has created a location for the site, stored
\* its service types and hours, and the location was soft-deleted or not.
AddSite(d, site) ==
    LET location == Len(d.locs) + 1
        record == RawServiceData([external_id |-> <<"e1", "e2", "e3", "e4">>[location],
                                  borough |-> "",
                                  service_types |-> site.service_types,
                                  operating_hours |-> site.operating_hours])
        created == create_or_update(d, record, site.coords, NoLocation)
        served == add_services(created, location, record.service_types,
                               record.service_capacities)
        timed == add_operating_hours(served, location, record.operating_hours)
    IN  IF site.deleted THEN SoftDelete(timed, location) ELSE timed

RECURSIVE StoreOf(_)
StoreOf(sites) ==
    IF sites = << >> THEN EmptyStore
    ELSE AddSite(StoreOf(SubSeq(sites, 1, Len(sites) - 1)), sites[Len(sites)])

QueryStores ==
    {StoreOf(sites) : sites \in UNION {[1..n -> Sites] : n \in 0..MaxSites}}

\* The arguments of the queries: centers, filters and clocks.
Centers == {PT_MIDTOWN, PT_DATELINE, PT_ARCTIC}
TypeFilters == {<< >>, <<"food">>, <<"food", "shelter">>}
QueryNows == {[day |-> "Monday", time |-> 600], [day |-> "Sunday", time |-> 600]}
Nows == [day : {"Sunday", "Monday", "Tuesday"}, time : {539, 540, 1020, 1021}]

InitQuery ==
    /\ db \in QueryStores
    /\ sess = EmptyStore
    /\ sess_ok = TRUE
    /\ runner = "idle"
    /\ raw_data = << >>
    /\ idx = 1
    /\ stats = NoStats
    /\ runs = 0
    /\ prev = NoPrev
    /\ step = NoStep
    /\ workers = << >>
    /\ feed = "query"
    /\ calls = 0
    /\ geo = NoCall

\* The queries of one behaviour; a query changes nothing in the store.
MaxQueries == 1

queryVars == <<db, sess, sess_ok, runner, raw_data, idx, stats, runs, prev,
               feed, geo, workers>>

\* GeospatialService.find_nearby(lat, lon, radius_km, service_types,
\* open_now, limit) at the clock `now`.
FindNearby ==
    /\ calls < MaxQueries
    /\ calls' = calls + 1
    /\ UNCHANGED queryVars
    /\ \E center \in Centers, radius_km \in {1, 5, 50}, service_types \in TypeFilters,
       open_now \in BOOLEAN, limit \in {1, 2, 600}, now \in QueryNows :
          \E responses \in find_nearby(db, center[1], center[2], radius_km,
                                       service_types, open_now, limit, now) :
             step' = [op |-> "find_nearby", lat |-> center[1], lon |-> center[2],
                      radius_km |-> radius_km, service_types |-> service_types,
                      open_now |-> open_now, limit |-> limit, now |-> now,
                      responses |-> responses]

\* _calculate_is_open_now(location.operating_hours) at the clock `now`.
CalculateIsOpenNow ==
    /\ calls < MaxQueries
    /\ calls' = calls + 1
    /\ UNCHANGED queryVars
    /\ \E location \in DOMAIN db.locs, now \in Nows :
          step' = [op |-> "is_open_now", location |-> location, now |-> now,
                   is_open |-> _calculate_is_open_now(HoursOf(db, location), now)]

\* The rectangle test of find_in_bounds with the longitude bounds left out.
InBoundsLatitudeOnly(location, min_lat, max_lat, min_lng, max_lng) ==
    /\ location.latitude >= min_lat
    /\ location.latitude <= max_lat

\* The rectangle test of find_in_bounds' statement.
InBounds(location, min_lat, max_lat, min_lng, max_lng) ==
    /\ location.latitude >= min_lat
    /\ location.latitude <= max_lat
    /\ location.longitude >= min_lng
    /\ location.longitude <= max_lng

\* The rows <<location, slug>> of find_in_bounds' statement before DISTINCT
\* ON: the locations that are not deleted and inside the rectangle, once for
\* every service type they are joined with when service_types is given;
\* else once each, without those that hold one of exclude_service_types.
BoundsRows(d, min_lat, max_lat, min_lng, max_lng, service_types, exclude_service_types) ==
    LET selected == {i \in DOMAIN d.locs :
                        /\ d.locs[i].deleted_at = "None"
                        /\ InBounds(d.locs[i], min_lat, max_lat, min_lng, max_lng)}
        excluded_location_ids ==
            {i \in DOMAIN d.locs : JoinedTypes(d, i, exclude_service_types) # {}}
    IN  IF service_types # << >>
        THEN UNION {{<<i, slug>> : slug \in JoinedTypes(d, i, service_types)} :
                       i \in selected}
        ELSE IF exclude_service_types # << >>
        THEN {<<i, "">> : i \in selected \ excluded_location_ids}
        ELSE {<<i, "">> : i \in selected}

\* distance_expr squared, in units of 1e-4 degree squared: the square root
\* orders as its argument does.  (The coordinates are multiples of 0.01
\* degree, so dividing by 100 loses nothing and keeps the squares small.)
distance_expr(location, center_lat, center_lng) ==
    ((location.latitude - center_lat) \div 100) * ((location.latitude - center_lat) \div 100)
    + ((location.longitude - center_lng) \div 100)
         * ((location.longitude - center_lng) \div 100)

\* find_in_bounds: the responses it can return, one list per order the
\* database can return the rows in.  With service_types and a center the
\* rows come by id; with a center alone by distance_expr; else in any order.
find_in_bounds(d, min_lat, max_lat, min_lng, max_lng, center_lat, center_lng, service_types, exclude_service_types, open_now, limit, now) ==
    LET safe_limit == Min(limit, 100)
        centered == center_lat # None /\ center_lng # None
        by_id == [i \in DOMAIN d.locs |-> i]
        by_distance ==
            [i \in DOMAIN d.locs |->
                distance_expr(d.locs[i], center_lat[1], center_lng[1])]
        ordered(rows) ==
            IF ~centered THEN rows
            ELSE IF service_types # << >> THEN SortedBy(rows, by_id)
            ELSE SortedBy(rows, by_distance)
        is_open(i) == _calculate_is_open_now(HoursOf(d, i), now)
        shown == {i \in DOMAIN d.locs : ~(open_now /\ ~is_open(i))}
        distance_km(i) ==
            IF centered
            THEN haversine_distance(center_lat[1], center_lng[1],
                                    d.locs[i].latitude, d.locs[i].longitude)
            ELSE 0
        distinct_on_id(rows) == {row[1] : row \in rows}
        responses(rows) ==
            LET locations == unique(Truncated(ordered(rows), safe_limit))
                listed == Filtered(locations, shown)
            IN  [p \in DOMAIN listed |->
                    ServiceLocationResponse(d, listed[p], distance_km(listed[p]),
                                            is_open(listed[p]))]
    IN  {responses(rows) :
            rows \in Orderings(distinct_on_id(
                        BoundsRows(d, min_lat, max_lat, min_lng, max_lng,
                                   service_types, exclude_service_types)))}

\* The parameters find_in_bounds declares, and the keywords
\* get_services_in_bounds calls it with.
FindInBoundsParameters ==
    {"min_lat", "max_lat", "min_lng", "max_lng", "center_lat", "center_lng",
     "service_types", "exclude_service_types", "open_now", "limit"}
FindInBoundsKeywords ==
    {"min_lat", "max_lat", "min_lng", "max_lng", "center_lat", "center_lng",
     "service_types", "exclude_service_types", "open_now", "open_today", "limit"}

HTTPException(status_code, detail) ==
    [status_code |-> status_code, detail |-> detail, responses |-> << >>]

\* get_services_in_bounds with bounds that are equal let through.
get_services_in_bounds_strict(d, min_lat, max_lat, min_lng, max_lng, center_lat, center_lng, service_types, exclude_service_types, open_now, open_today, limit, now) ==
    IF min_lat > max_lat
    THEN {HTTPException(400, "min_lat must be less than max_lat")}
    ELSE IF min_lng > max_lng
    THEN {HTTPException(400, "min_lng must be less than max_lng")}
    ELSE IF ~(FindInBoundsKeywords \subseteq FindInBoundsParameters)
    THEN {HTTPException(500, "Internal Server Error")}
    ELSE {[status_code |-> 200, detail |-> "", responses |-> responses] :
             responses \in find_in_bounds(d, min_lat, max_lat, min_lng, max_lng,
                                          center_lat, center_lng, service_types,
                                          exclude_service_types, open_now, limit, now)}

\* GET /services/in-bounds: 400 for min_lat >= max_lat or min_lng >= max_lng;
\* else the call of find_in_bounds, which raises TypeError for a keyword the
\* function does not declare (answered 500), and whose list is answered 200.
\* open_today is handed on as a keyword and read nowhere else.
get_services_in_bounds(d, min_lat, max_lat, min_lng, max_lng, center_lat, center_lng, service_types, exclude_service_types, open_now, open_today, limit, now) ==
    IF min_lat >= max_lat
    THEN {HTTPException(400, "min_lat must be less than max_lat")}
    ELSE IF min_lng >= max_lng
    THEN {HTTPException(400, "min_lng must be less than max_lng")}
    ELSE IF ~(FindInBoundsKeywords \subseteq FindInBoundsParameters)
    THEN {HTTPException(500, "Internal Server Error")}
    ELSE {[status_code |-> 200, detail |-> "", responses |-> responses] :
             responses \in find_in_bounds(d, min_lat, max_lat, min_lng, max_lng,
                                          center_lat, center_lng, service_types,
                                          exclude_service_types, open_now, limit, now)}

\* get_location_details without the test of deleted_at.
get_location_details_deleted_too(d, location_id) ==
    IF location_id \in DOMAIN d.locs
    THEN Some([id |-> location_id, services |-> ServicesOf(d, location_id),
               operating_hours |-> HoursOf(d, location_id)])
    ELSE None

\* get_location_details: the location of that id that is not deleted, with
\* its services and hours, or None.
get_location_details(d, location_id) ==
    IF location_id \in DOMAIN d.locs /\ d.locs[location_id].deleted_at = "None"
    THEN Some([id |-> location_id, services |-> ServicesOf(d, location_id),
               operating_hours |-> HoursOf(d, location_id)])
    ELSE None

\* GET /services/{location_id}
get_service_details(d, location_id) ==
    LET location == get_location_details(d, location_id)
    IN  IF location = None
        THEN [status_code |-> 404, detail |-> "Service location not found",
              location |-> None]
        ELSE [status_code |-> 200, detail |-> "", location |-> location]

\* Rectangles of the in-bounds queries, units of 1e-4 degree: the city, one
\* block around PT_MIDTOWN, the whole map, and two malformed ones: a line
\* (min_lat = max_lat) and one with min_lng > max_lng.
Rectangles ==
    {[min_lat |-> 407000, max_lat |-> 408000, min_lng |-> -740500, max_lng |-> -739000],
     [min_lat |-> 407400, max_lat |-> 407600, min_lng |-> -739900, max_lng |-> -739750],
     [min_lat |-> -900000, max_lat |-> 900000, min_lng |-> -1800000, max_lng |-> 1800000],
     [min_lat |-> 407500, max_lat |-> 407500, min_lng |-> -740500, max_lng |-> -739000],
     [min_lat |-> 407000, max_lat |-> 408000, min_lng |-> -739000, max_lng |-> -740500]}

\* No center, or PT_MIDTOWN as center_lat and center_lng.
BoundsCenters == {<<None, None>>, <<Some(PT_MIDTOWN[1]), Some(PT_MIDTOWN[2])>>}

\* GeospatialService.find_in_bounds(...) at the clock `now`.
FindInBounds ==
    /\ calls < MaxQueries
    /\ calls' = calls + 1
    /\ UNCHANGED queryVars
    /\ \E box \in Rectangles, center \in BoundsCenters,
          service_types \in TypeFilters, exclude_service_types \in {<< >>, <<"hygiene">>},
          open_now \in BOOLEAN, limit \in {1, 2, 150}, now \in QueryNows :
          \E responses \in find_in_bounds(db, box.min_lat, box.max_lat, box.min_lng,
                                          box.max_lng, center[1], center[2],
                                          service_types, exclude_service_types,
                                          open_now, limit, now) :
             step' = [op |-> "find_in_bounds", box |-> box, center |-> center,
                      service_types |-> service_types,
                      exclude_service_types |-> exclude_service_types,
                      open_now |-> open_now, limit |-> limit, now |-> now,
                      responses |-> responses]

\* GET /services/in-bounds
GetServicesInBounds ==
    /\ calls < MaxQueries
    /\ calls' = calls + 1
    /\ UNCHANGED queryVars
    /\ \E box \in Rectangles, center \in BoundsCenters,
          service_types \in TypeFilters, open_today \in BOOLEAN,
          limit \in {1, 75}, now \in QueryNows :
          \E response \in get_services_in_bounds(db, box.min_lat, box.max_lat,
                                                 box.min_lng, box.max_lng,
                                                 center[1], center[2],
                                                 service_types, << >>, FALSE,
                                                 open_today, limit, now) :
             step' = [op |-> "get_services_in_bounds", box |-> box,
                      center |-> center, service_types |-> service_types,
                      open_today |-> open_today, limit |-> limit, now |-> now,
                      response |-> response]

\* GET /services/{location_id}
GetServiceDetails ==
    /\ calls < MaxQueries
    /\ calls' = calls + 1
    /\ UNCHANGED queryVars
    /\ \E location_id \in 1..(MaxSites + 1) :
          step' = [op |-> "get_service_details", location_id |-> location_id,
                   response |-> get_service_details(db, location_id)]

NextQuery ==
    \/ FindNearby
    \/ CalculateIsOpenNow
    \/ FindInBounds
    \/ GetServicesInBounds
    \/ GetServiceDetails

SpecQuery == InitQuery /\ [][NextQuery]_vars

\* ---------------------------------------------------- claims on the queries
\* The distance of a stored location from the center of the last query.
DistanceOf(i) ==
    haversine_distance(step.lat, step.lon, db.locs[i].latitude, db.locs[i].longitude)

\* The locations the last nearby query is about: not deleted, within the
\* radius, holding a requested service type when the query names some.
InRadius ==
    {i \in DOMAIN db.locs :
        /\ db.locs[i].deleted_at = "None"
        /\ DistanceOf(i) <= step.radius_km * 1000
        /\ step.service_types # << >> => JoinedTypes(db, i, step.service_types) # {}}

Returned == {step.responses[p].id : p \in DOMAIN step.responses}

\* The responses come in non-decreasing distance from the center.
ByDistance ==
    \A p, q \in DOMAIN step.responses :
       p < q => DistanceOf(step.responses[p].id) <= DistanceOf(step.responses[q].id)

\* C13: find_nearby without open_now returns at most min(limit, 500)
\* locations, each within radius_km * 1000 metres of the center, in
\* non-decreasing distance, and no location within the radius that it left
\* out is closer than one it returned.
C13_NearestWithinRadius ==
    (step.op = "find_nearby" /\ ~step.open_now) =>
        /\ Len(step.responses) <= Min(step.limit, 500)
        /\ \A i \in Returned : DistanceOf(i) <= step.radius_km * 1000
        /\ ByDistance
        /\ \A i \in InRadius \ Returned, j \in Returned : DistanceOf(i) >= DistanceOf(j)

\* The box of the last nearby query holds every stored place within the
\* radius.
BoxCovers ==
    \A i \in DOMAIN db.locs :
       DistanceOf(i) <= step.radius_km * 1000
          => InBox(db.locs[i], step.lat, step.lon, step.radius_km)

\* C14: every place whose great-circle distance from the center of a nearby
\* query is at most radius_km lies inside the query's bounding box, for the
\* centers in the city, at the 180th meridian and near the pole.
C14_BoxSuperset == step.op = "find_nearby" => BoxCovers

\* The locations within the radius that are open at the clock of the query.
OpenInRadius == {i \in InRadius : _calculate_is_open_now(HoursOf(db, i), step.now)}

\* C15: find_nearby with open_now, when its box holds every place within the
\* radius, returns open locations only, in non-decreasing distance, as many
\* as min(limit, number of open locations within the radius), and leaves out
\* no open location closer than one it returned.
C15_NearestOpen ==
    (step.op = "find_nearby" /\ step.open_now /\ BoxCovers) =>
        /\ Returned \subseteq OpenInRadius
        /\ ByDistance
        /\ Len(step.responses) = Min(step.limit, Cardinality(OpenInRadius))
        /\ \A i \in OpenInRadius \ Returned, j \in Returned :
              DistanceOf(i) >= DistanceOf(j)

\* The row is of the day of the clock, counting days as day_names does
\* (0 = Sunday), is not marked closed, and is open around the clock or has
\* the time of the clock between its open_time and close_time.
OpenAt(hours, now) ==
    /\ day_names[hours.day_of_week + 1] = now.day
    /\ ~hours.is_closed
    /\ \/ hours.is_24_hours
       \/ /\ hours.open_time # None /\ hours.close_time # None
          /\ hours.open_time[1] <= now.time /\ now.time <= hours.close_time[1]

C17_NoDeletedExposed ==
    /\ step.op \in {"find_nearby", "find_in_bounds"} =>
          \A p \in DOMAIN step.responses :
             db.locs[step.responses[p].id].deleted_at = "None"
    /\ step.op = "get_service_details" =>
          (step.response.status_code = 404
              <=> \/ step.location_id \notin DOMAIN db.locs
                  \/ db.locs[step.location_id].deleted_at # "None")

\* The detail lookup of a soft-deleted location, answered 404.
C17_Witness ==
    /\ step.op = "get_service_details"
    /\ step.location_id \in DOMAIN db.locs
    /\ db.locs[step.location_id].deleted_at # "None"
    /\ step.response.status_code = 404

\* The rectangle of the last in-bounds query is well-formed.
WellFormed == step.box.min_lat < step.box.max_lat /\ step.box.min_lng < step.box.max_lng

\* C18: GET /services/in-bounds answers 400 exactly for the queries with
\* min_lat >= max_lat or min_lng >= max_lng; a malformed query is never
\* answered with a list and a well-formed one is never refused for its
\* bounds.
C18_MalformedBoundsRejected ==
    step.op = "get_services_in_bounds" =>
        (step.response.status_code = 400 <=> ~WellFormed)

\* A query whose rectangle is a line, min_lat = max_lat, with locations of
\* the store on the line, answered 400.
C18_Witness ==
    /\ step.op = "get_services_in_bounds"
    /\ step.box.min_lat = step.box.max_lat
    /\ \E i \in DOMAIN db.locs :
          db.locs[i].deleted_at = "None" /\ db.locs[i].latitude = step.box.min_lat
    /\ step.response.status_code = 400

C20_FilterMatchesOnce ==
    (step.op \in {"find_in_bounds", "find_nearby"} /\ Len(step.service_types) > 1) =>
        /\ \A p \in DOMAIN step.responses :
              step.responses[p].services \cap SetOf(step.service_types) # {}
        /\ \A p, q \in DOMAIN step.responses :
              p # q => step.responses[p].id # step.responses[q].id

\* A query for food and shelter that returns a location holding both, on a
\* store with a location in reach that holds neither.
C20_Witness ==
    /\ step.op = "find_in_bounds"
    /\ step.service_types = <<"food", "shelter">>
    /\ \E p \in DOMAIN step.responses :
          {"food", "shelter"} \subseteq step.responses[p].services
    /\ \E i \in DOMAIN db.locs :
          /\ db.locs[i].deleted_at = "None"
          /\ InBounds(db.locs[i], step.box.min_lat, step.box.max_lat,
                      step.box.min_lng, step.box.max_lng)
          /\ ServicesOf(db, i) \cap {"food", "shelter"} = {}

\* The distance_km a response of the last in-bounds query carries for a
\* location, and the locations the query is about: not deleted and inside
\* the rectangle.
ReturnedIds == {step.responses[p].id : p \in DOMAIN step.responses}

InRectangle ==
    {i \in DOMAIN db.locs :
        /\ db.locs[i].deleted_at = "None"
        /\ InBounds(db.locs[i], step.box.min_lat, step.box.max_lat,
                    step.box.min_lng, step.box.max_lng)}

\* C21: find_in_bounds with exclude_service_types returns no location that
\* holds one of the excluded service types, with or without service_types in
\* the same call.
C21_ExcludedNeverReturned ==
    (step.op = "find_in_bounds" /\ step.exclude_service_types # << >>) =>
        \A p \in DOMAIN step.responses :
           step.responses[p].services \cap SetOf(step.exclude_service_types) = {}

\* The haversine distance from the center of the last in-bounds query.
CenterDistance(i) ==
    haversine_distance(step.center[1][1], step.center[2][1],
                       db.locs[i].latitude, db.locs[i].longitude)

\* C22: find_in_bounds with a center and without open_now returns its
\* locations in non-decreasing distance_km, in every selection mode, and
\* leaves out no location of the rectangle that passes the filters and is
\* nearer to the center than one it returned.
C22_OrderedByDistance ==
    (step.op = "find_in_bounds" /\ step.center[1] # None /\ ~step.open_now) =>
        /\ \A p, q \in DOMAIN step.responses :
              p < q => step.responses[p].distance_km <= step.responses[q].distance_km
        /\ \A i \in InRectangle \ ReturnedIds, j \in ReturnedIds :
              (/\ step.service_types # << >>
                     => JoinedTypes(db, i, step.service_types) # {}
               /\ (step.service_types = << >> /\ step.exclude_service_types # << >>)
                     => JoinedTypes(db, i, step.exclude_service_types) = {})
                 => CenterDistance(i) >= CenterDistance(j)

\* The location has a row of the clock's day (0 = Sunday) that is not marked
\* closed.
OpenToday(i, now) ==
    \E hours \in HoursOf(db, i) :
       day_names[hours.day_of_week + 1] = now.day /\ ~hours.is_closed

\* C23: GET /services/in-bounds with open_today and a well-formed rectangle
\* is answered with a list (200), and the list holds only locations with a
\* row of today that is not closed.
C23_OpenTodayAnswered ==
    (step.op = "get_services_in_bounds" /\ step.open_today /\ WellFormed) =>
        /\ step.response.status_code = 200
        /\ \A p \in DOMAIN step.response.responses :
              OpenToday(step.response.responses[p].id, step.now)

\* ------------------------------------------- claims on the write operations
\* C24: create_or_update called without coordinates raises the
\* missing-coordinates error before any lookup or write: it returns no
\* location, no match was looked up, and the session and the committed store
\* are what they were.
C24_MissingCoordinatesRaise ==
    [][(step'.op = "create_or_update" /\ step'.coords = None) =>
          /\ step'.raised = "ValueError"
          /\ step'.existing = NoLocation
          /\ step'.location = NoLocation
          /\ sess' = sess
          /\ db' = db]_vars

\* C24 witness: create_or_update raised for a record without coordinates
\* while the session held a location the record's identity matches.
C24_Witness ==
    /\ step.op = "create_or_update"
    /\ step.coords = None
    /\ step.raised = "ValueError"
    /\ SameIdentity(sess, step.raw_data) # {}

\* C25: a record whose (data_source, external_id) is already stored, with a
\* phone that differs from the stored one, and that is neither skipped nor
\* failed: afterwards there is still exactly one location of that identity
\* and no location more than before, its phone is the record's, the created
\* count has not moved and the updated count is one higher.
C25_RerunUpdatesPhone ==
    [][(/\ step'.op = "record"
        /\ step'.fault = "none"
        /\ HasIdentity(step'.raw_data)
        /\ \E i \in SameIdentity(sess, step'.raw_data) :
              sess.locs[i].phone # step'.raw_data.phone
        /\ step'.raw_data.phone # ""
        /\ stats'.failed = stats.failed
        /\ stats'.skipped = stats.skipped
        /\ stats'.skipped_no_address = stats.skipped_no_address)
          => /\ Len(sess'.locs) = Len(sess.locs)
             /\ Cardinality(SameIdentity(sess', step'.raw_data)) = 1
             /\ \A i \in SameIdentity(sess', step'.raw_data) :
                   sess'.locs[i].phone = step'.raw_data.phone
             /\ stats'.created = stats.created
             /\ stats'.updated = stats.updated + 1]_vars

\* C25 witness: the second run of run_all_scrapers over a list of two records
\* of one identity with different phones, after a clean first run that left
\* the second record's phone; the first record has just been persisted as an
\* update and the location carries its phone.
C25_Witness ==
    /\ runner = "main"
    /\ runs = 2
    /\ prev.clean
    /\ raw_data = <<P_EAST, P_MOVED>>
    /\ idx = 2
    /\ step.op = "record"
    /\ step.fault = "none"
    /\ step.existing # NoLocation
    /\ stats = [NoStats EXCEPT !.updated = 1]
    /\ Len(db.locs) = 1
    /\ db.locs[1].phone = P_EAST.phone

\* --------------------------------------------------- two runs at the same time
\* Two runner processes, one per source, each with its own get_db() session on
\* the same database.  A session reads what is committed and what it wrote
\* itself (READ COMMITTED); what another session flushed and has not committed
\* is invisible to it.  `db` is the committed store.
SourceRecords ==
    [A |-> {RawServiceData([external_id |-> "a1"]),
            RawServiceData([external_id |-> "a2", name |-> NAME_FOOD,
                            street_address |-> ADDR_ELM, borough |-> "Brooklyn"])},
     B |-> {RawServiceData([data_source |-> "B", external_id |-> "b1",
                            name |-> NAME_EAST_LOWER]),
            RawServiceData([data_source |-> "B", external_id |-> "b2",
                            name |-> NAME_FOOD, street_address |-> ADDR_ELM,
                            borough |-> "Queens", service_types |-> <<"shelter">>])}]

InitConcurrent ==
    /\ db = EmptyStore
    /\ sess = EmptyStore
    /\ sess_ok = TRUE
    /\ runner = "idle"
    /\ raw_data = << >>
    /\ idx = 1
    /\ stats = NoStats
    /\ runs = 0
    /\ prev = NoPrev
    /\ step = NoStep
    /\ feed = "concurrent"
    /\ calls = 0
    /\ geo = NoCall
    /\ \E a \in UNION {[1..n -> SourceRecords.A] : n \in 1..MaxRecs},
          b \in UNION {[1..n -> SourceRecords.B] : n \in 1..MaxRecs} :
          workers = [w \in 1..2 |->
                       [raw_data |-> IF w = 1 THEN a ELSE b, idx |-> 1,
                        pc |-> "find_match", existing |-> NoLocation,
                        coords |-> None, inner |-> NoLocation]]

\* existing = deduplicator.find_match(data), the runner's own lookup.
ConcurrentFindMatch ==
    \E w \in DOMAIN workers :
        /\ workers[w].pc = "find_match"
        /\ workers[w].idx <= Len(workers[w].raw_data)
        /\ \E existing \in find_match(db, workers[w].raw_data[workers[w].idx]) :
              workers' = [workers EXCEPT ![w].existing = existing,
                                         ![w].pc = "create_or_update"]
        /\ step' = [op |-> "worker_find_match", worker |-> w]
        /\ UNCHANGED <<db, sess, sess_ok, runner, raw_data, idx, stats, runs,
                       prev, feed, calls, geo>>

\* The coordinates (those of the match when it has valid ones, else the
\* geocoder's, which answers every address here), then create_or_update with
\* its own find_match, add_services and add_operating_hours: the session
\* holds the changes, flushed and not committed.
ConcurrentCreateOrUpdate ==
    \E w \in DOMAIN workers :
        /\ workers[w].pc = "create_or_update"
        /\ \E inner \in find_match(db, workers[w].raw_data[workers[w].idx]) :
              workers' =
                [workers EXCEPT
                   ![w].inner = inner,
                   ![w].coords =
                      IF /\ workers[w].existing # NoLocation
                         /\ ValidCoords(db.locs[workers[w].existing])
                      THEN <<db.locs[workers[w].existing].latitude,
                             db.locs[workers[w].existing].longitude>>
                      ELSE PT_MIDTOWN,
                   ![w].pc = "commit"]
        /\ step' = [op |-> "worker_create_or_update", worker |-> w]
        /\ UNCHANGED <<db, sess, sess_ok, runner, raw_data, idx, stats, runs,
                       prev, feed, calls, geo>>

\* db.commit(): the session's changes reach the committed store, the insert
\* as a new row, the update on the row of the match.
ConcurrentCommit ==
    \E w \in DOMAIN workers :
        /\ workers[w].pc = "commit"
        /\ db' = StoreRecord(db, workers[w].raw_data[workers[w].idx],
                             workers[w].coords, workers[w].inner)
        /\ workers' = [workers EXCEPT ![w].idx = @ + 1,
                                      ![w].pc = "find_match"]
        /\ step' = [op |-> "worker_commit", worker |-> w]
        /\ UNCHANGED <<sess, sess_ok, runner, raw_data, idx, stats, runs,
                       prev, feed, calls, geo>>

NextConcurrent ==
    \/ ConcurrentFindMatch
    \/ ConcurrentCreateOrUpdate
    \/ ConcurrentCommit

SpecConcurrent == InitConcurrent /\ [][NextConcurrent]_vars

\* The stores a run over the list can leave, started on one of `stores`, the
\* records taken one after the other from position i.
RECURSIVE RunAlone(_, _, _)
RunAlone(stores, list, i) ==
    IF i > Len(list) THEN stores
    ELSE RunAlone(UNION {{StoreRecord(d, list[i], PT_MIDTOWN, inner) :
                             inner \in find_match(d, list[i])} : d \in stores},
                  list, i + 1)

\* The stores the two runs can leave when one runs after the other.
OneAfterTheOther ==
    RunAlone(RunAlone({EmptyStore}, workers[1].raw_data, 1),
             workers[2].raw_data, 1)
      \cup RunAlone(RunAlone({EmptyStore}, workers[2].raw_data, 1),
                    workers[1].raw_data, 1)

\* The locations of a store with the service types each one holds, whatever
\* their row ids.
Content(d) ==
    {<<d.locs[i], {ls.service_type_id :
                      ls \in {x \in d.svcs : x.location_id = i}}>> :
        i \in DOMAIN d.locs}

\* C26: when two runs for two sources, each with its own session, have both
\* ended, the committed store holds what the two runs leave when one runs
\* after the other, in one of the two orders: the same number of locations
\* with the same fields and service types.
C26_AsOneAfterTheOther ==
    (\A w \in DOMAIN workers : workers[w].idx > Len(workers[w].raw_data)) =>
        \E d \in OneAfterTheOther :
            /\ Len(db.locs) = Len(d.locs)
            /\ Content(db) = Content(d)

\* ------------------------------------------------- claims on the rate limit
\* In a sequence of Geocoder events every request comes right after a sleep
\* of one second.
Waited(events) ==
    \A p \in DOMAIN events :
        events[p] = "request" => (p > 1 /\ events[p - 1] = "sleep")

\* C27: no request goes to the geocoding service without the one-second sleep
\* right before it, so a sleep lies between any two consecutive requests,
\* within one geocode_with_fallback call and from one call to the next.
C27_WaitBeforeRequest ==
    [][geo'.op # "none" =>
          /\ Waited(geo'.result.events)
          /\ geo.op # "none" => Waited(geo.result.events \o geo'.result.events)]_vars

\* C27 witness: a geocode_with_fallback call sent two requests (the address
\* lookup failed and the zip code was tried) and slept before each.
C27_Witness ==
    /\ geo.op = "geocode_with_fallback"
    /\ geo.result.events = <<"sleep", "request", "sleep", "request">>

\* ---------------------------------------------------- claims on the counters
\* C28: while a run is in progress and when its loop is over, every record
\* processed so far is counted in exactly one counter: created, updated,
\* skipped (without an address, not geocoded, timed out) and failed add up to
\* the number of records processed.
C28_CountedOnce ==
    runner # "idle" =>
        stats.created + stats.updated + stats.skipped
          + stats.skipped_no_address + stats.failed = idx - 1

\* ------------------------------------------- claims on soft-deleted locations
\* C29: find_match returns no location whose deleted_at is set, whichever
\* tier found it.
C29_NoDeletedMatch ==
    (step.op = "find_match" /\ step.existing # NoLocation) =>
        sess.locs[step.existing].deleted_at = "None"

\* C30: when create_or_update updates the location find_match returned, by
\* identity or by the fuzzy tier, the row keeps its place (its id) and its
\* data_source, external_id, street address, city, state, zip code, borough,
\* verified flag and deleted_at, no row is added, and every other location
\* is what it was.
C30_UpdateFrame ==
    [][(/\ step'.op = "create_or_update"
        /\ step'.raised = "None"
        /\ step'.existing # NoLocation)
          => LET i == step'.existing
             IN  /\ step'.location = i
                 /\ Len(sess'.locs) = Len(sess.locs)
                 /\ \A j \in DOMAIN sess.locs :
                       j # i => sess'.locs[j] = sess.locs[j]
                 /\ sess'.locs[i].data_source = sess.locs[i].data_source
                 /\ sess'.locs[i].external_id = sess.locs[i].external_id
                 /\ sess'.locs[i].street_address = sess.locs[i].street_address
                 /\ sess'.locs[i].city = sess.locs[i].city
                 /\ sess'.locs[i].state = sess.locs[i].state
                 /\ sess'.locs[i].zip_code = sess.locs[i].zip_code
                 /\ sess'.locs[i].borough = sess.locs[i].borough
                 /\ sess'.locs[i].verified = sess.locs[i].verified
                 /\ sess'.locs[i].deleted_at = sess.locs[i].deleted_at]_vars

\* C30 witness: create_or_update updated a location the fuzzy tier matched,
\* whose upstream identity and street address are not the record's, in a
\* session that holds a second location.
C30_Witness ==
    /\ step.op = "create_or_update"
    /\ step.raised = "None"
    /\ step.existing # NoLocation
    /\ Len(sess.locs) = 2
    /\ sess.locs[step.existing].external_id # step.raw_data.external_id
    /\ sess.locs[step.existing].street_address # step.raw_data.street_address
    /\ sess.locs[step.existing].name = step.raw_data.name

====
